---------------------------- MODULE Spec2Model ----------------------------
(***************************************************************************)
(* A model of kirill-scherba/sqlh: the statement builders and the value     *)
(* marshaller of package query, and the transactional CRUD functions of     *)
(* package sqlh that run on top of them.                                    *)
(*                                                                          *)
(* Text (Go string) is a sequence of one-character strings, so that         *)
(* strings.ToLower, strings.Contains, strings.Join and fmt.Sprintf are      *)
(* computed character by character, as the code computes them.             *)
(***************************************************************************)
EXTENDS Integers, Sequences, FiniteSets, TLC

VARIABLES
    qT,        \* package query: the record type argument T of the calls
    qRow,      \* package query: the record value handed to Args
    qRes,      \* package query: the call made and what it returned
    dbT,       \* package sqlh: the record type whose table the database holds
    database,  \* the database: the committed rows of the table and its row counter
    last,      \* package sqlh: the call made on the populated table, and its outcome
    after,     \* package sqlh: the Get that followed that call, and its outcome
    sess,      \* concurrent callers: the transaction and position of each
    lock,      \* concurrent callers: the caller whose transaction holds the database
    pkgNumRows \* package query: the variable numRows

vars == <<qT, qRow, qRes, dbT, database, last, after, sess, lock, pkgNumRows>>

---------------------------------------------------------------------------
(* Text primitives: package strings and fmt.                               *)

Upper == <<"A","B","C","D","E","F","G","H","I","J","K","L","M",
           "N","O","P","Q","R","S","T","U","V","W","X","Y","Z">>
Lower == <<"a","b","c","d","e","f","g","h","i","j","k","l","m",
           "n","o","p","q","r","s","t","u","v","w","x","y","z">>
Digits == <<"0","1","2","3","4","5","6","7","8","9">>

\* strings.ToLower
LowerOf == [c \in {Upper[j] : j \in 1..26} |-> Lower[CHOOSE j \in 1..26 : Upper[j] = c]]
ToLower(s) ==
    SubSeq([i \in 1..Len(s) |-> IF s[i] \in DOMAIN LowerOf THEN LowerOf[s[i]] ELSE s[i]],
           1, Len(s))

\* the characters of a text
Chars(s) == SubSeq([i \in 1..Len(s) |-> SubSeq(s, i, i)], 1, Len(s))

\* strings.HasPrefix
HasPrefix(s, prefix) ==
    Len(prefix) <= Len(s) /\ \A j \in 1..Len(prefix) : s[j] = prefix[j]

\* strings.Index, 1-based; 0 when sub does not occur in s
IndexOf(s, sub) ==
    LET first(hits) == IF hits = {} THEN 0 ELSE CHOOSE i \in hits : \A k \in hits : i <= k
    IN  first({i \in 1..(Len(s) - Len(sub) + 1) : \A j \in 1..Len(sub) : s[i + j - 1] = sub[j]})

\* strings.Contains
Contains(s, sub) == IndexOf(s, sub) # 0

\* the text after the first occurrence of sub (the whole text when there is none)
After(s, sub) ==
    LET cut(i) == IF i = 0 THEN s ELSE SubSeq(s, i + Len(sub), Len(s))
    IN  cut(IndexOf(s, sub))

\* the text before the first occurrence of sub (the whole text when there is none)
Before(s, sub) ==
    LET cut(i) == IF i = 0 THEN s ELSE SubSeq(s, 1, i - 1)
    IN  cut(IndexOf(s, sub))

\* strings.Count for a non-empty sub
CountOf(s, sub) ==
    Cardinality({i \in 1..(Len(s) - Len(sub) + 1) :
                    \A j \in 1..Len(sub) : s[i + j - 1] = sub[j]})

\* strings.Split for a non-empty sep; the empty text splits into no part
RECURSIVE Split(_, _)
Split(s, sep) ==
    LET cut(i) == IF i = 0 THEN <<s>>
                  ELSE <<SubSeq(s, 1, i - 1)>> \o Split(SubSeq(s, i + Len(sep), Len(s)), sep)
    IN  IF s = <<>> THEN <<>> ELSE cut(IndexOf(s, sep))

\* strings.Join
RECURSIVE Join(_, _)
Join(parts, sep) ==
    IF parts = <<>> THEN <<>>
    ELSE IF Len(parts) = 1 THEN parts[1]
    ELSE parts[1] \o sep \o Join(Tail(parts), sep)

\* strings.Repeat
RECURSIVE Repeat(_, _)
Repeat(s, n) == IF n <= 0 THEN <<>> ELSE s \o Repeat(s, n - 1)

\* strings.TrimRight with a one-character cutset
RECURSIVE TrimRight(_, _)
TrimRight(s, c) ==
    IF s # <<>> /\ s[Len(s)] = c THEN TrimRight(SubSeq(s, 1, Len(s) - 1), c) ELSE s

\* strings.TrimSpace, for texts whose only white space is the blank
RECURSIVE TrimLeft(_, _)
TrimLeft(s, c) == IF s # <<>> /\ s[1] = c THEN TrimLeft(Tail(s), c) ELSE s
TrimSpace(s) == TrimLeft(TrimRight(s, " "), " ")

\* fmt's %d
RECURSIVE Itoa(_)
Itoa(n) ==
    IF n < 0 THEN <<"-">> \o Itoa(0 - n)
    ELSE IF n < 10 THEN <<Digits[n + 1]>>
    ELSE Itoa(n \div 10) \o <<Digits[(n % 10) + 1]>>

---------------------------------------------------------------------------
(* Record types: what reflect.TypeOf shows of a Go struct type.  A field   *)
(* has its Go name, its db, db_type, db_key and db_table_name tags, its    *)
(* kind and, for a struct or pointer field, the type it refers to.         *)

Fld(name, db, key, kind, elem) ==
    [name |-> name, db |-> db, typ |-> <<>>, key |-> key, tbl |-> <<>>,
     kind |-> kind, elem |-> elem]

\* the test tables of the repository, and record types that exercise every
\* branch of the field filters (db:"-", the blank name _, a db:"_" tag, a
\* timestamp or a record as first field, the autoincrement spellings); Node
\* is a record whose first field points to a Node
Types ==
    [TestTable |->
        [name |-> Chars("TestTable"),
         fields |-> <<
            Fld(<<"I","D">>, <<"i","d">>,
                Chars("not null primary key autoincrement"),
                "int64", ""),
            Fld(<<"N","a","m","e">>, <<"n","a","m","e">>, <<>>, "string", ""),
            Fld(<<"D","a","t","a">>, <<"d","a","t","a">>, <<>>, "bytes", "") >>],
     TestMySQLTable |->
        [name |-> Chars("TestMySQLTable"),
         fields |-> <<
            Fld(<<"I","D">>, <<"i","d">>,
                Chars("not null primary key AUTO_INCREMENT"),
                "int64", ""),
            Fld(<<"N","a","m","e">>, <<"n","a","m","e">>,
                Chars("not null"), "string", ""),
            Fld(<<"D","a","t","a">>, <<"d","a","t","a">>, <<>>, "bytes", ""),
            Fld(<<"_">>, <<>>,
                Chars("unique KEY(name(255))"),
                "bool", "") >>],
     TestTable2 |->
        [name |-> Chars("TestTable2"),
         fields |-> <<
            Fld(<<"I","D">>, <<"i","d">>,
                Chars("not null primary key"),
                "int64", ""),
            Fld(<<"V","a","l","u","e">>, <<"v","a","l","u","e">>, <<>>, "int64", "") >>],
     LowerAuto |->
        [name |-> Chars("LowerAuto"),
         fields |-> <<
            Fld(<<"I","D">>, <<"i","d">>,
                Chars("primary key auto_increment"),
                "int64", ""),
            Fld(<<"N","a","m","e">>, <<>>, <<>>, "string", "") >>],
     DashFirst |->
        [name |-> Chars("DashFirst"),
         fields |-> <<
            Fld(<<"S","k","i","p">>, <<"-">>, <<>>, "int64", ""),
            Fld(<<"N","a","m","e">>, <<"n","a","m","e">>, <<>>, "string", ""),
            Fld(<<"D","a","t","a">>, <<"d","a","t","a">>, <<>>, "bytes", "") >>],
     DashMid |->
        [name |-> <<"D","a","s","h","M","i","d">>,
         fields |-> <<
            Fld(<<"N","a","m","e">>, <<"n","a","m","e">>, <<>>, "string", ""),
            Fld(<<"S","k","i","p">>, <<"-">>, <<>>, "int64", ""),
            Fld(<<"D","a","t","a">>, <<"d","a","t","a">>, <<>>, "bytes", "") >>],
     DashLast |->
        [name |-> Chars("DashLast"),
         fields |-> <<
            Fld(<<"N","a","m","e">>, <<"n","a","m","e">>, <<>>, "string", ""),
            Fld(<<"D","a","t","a">>, <<"d","a","t","a">>, <<>>, "bytes", ""),
            Fld(<<"S","k","i","p">>, <<"-">>, <<>>, "int64", "") >>],
     UnderMid |->
        [name |-> Chars("UnderMid"),
         fields |-> <<
            Fld(<<"N","a","m","e">>, <<"n","a","m","e">>, <<>>, "string", ""),
            Fld(<<"_">>, <<>>, <<"u","n","i","q","u","e">>, "bool", ""),
            Fld(<<"A","g","e">>, <<>>, <<>>, "int16", "") >>],
     TagUnder |->
        [name |-> Chars("TagUnder"),
         fields |-> <<
            Fld(<<"N","a","m","e">>, <<"n","a","m","e">>, <<>>, "string", ""),
            Fld(<<"M","a","r","k">>, <<"_">>, <<"u","n","i","q","u","e">>, "bool", ""),
            Fld(<<"D","a","t","a">>, <<"d","a","t","a">>, <<>>, "bytes", "") >>],
     TimeFirst |->
        [name |-> Chars("TimeFirst"),
         fields |-> <<
            Fld(<<"T","i","m","e">>, <<"t","i","m","e">>, <<>>, "struct", "Time"),
            Fld(<<"N","a","m","e">>, <<"n","a","m","e">>, <<>>, "string", "") >>],
     SomeTable |->
        [name |-> Chars("SomeTable"),
         fields |-> <<
            [Fld(<<"N","a","m","e">>, <<"n","a","m","e">>,
                 Chars("not null primary key"),
                 "string", "")
                EXCEPT !.typ = Chars("varchar(36)")],
            Fld(<<"D","i","s","h","I","d">>, <<>>,
                Chars("references dishtypes(id)"),
                "int64", ""),
            Fld(<<"C","o","s","t">>, <<"c","o","s","t">>, <<>>, "float64", ""),
            Fld(<<"A","g","e">>, <<"a","g","e">>, <<>>, "int32", ""),
            Fld(<<"T","i","m","e">>, <<"t","i","m","e">>, <<>>, "struct", "Time"),
            Fld(<<"C","o","m","p","l">>, <<>>, <<>>, "complex128", ""),
            [Fld(<<"_">>, <<>>, <<>>, "bool", "")
                EXCEPT !.tbl = Chars("some_table")] >>],
     Result |->
        [name |-> <<>>,
         fields |-> <<
            Fld(Chars("TestTable"), <<>>, <<>>, "ptr", "TestTable"),
            Fld(Chars("TestTable2"), <<>>, <<>>, "ptr",
                "TestTable2") >>],
     Node |->
        [name |-> <<"N","o","d","e">>,
         fields |-> <<
            Fld(<<"N","e","x","t">>, <<>>, <<>>, "ptr", "Node"),
            Fld(<<"N","a","m","e">>, <<"n","a","m","e">>, <<>>, "string", "") >>],
     Time |->
        [name |-> <<"T","i","m","e">>,
         fields |-> <<
            Fld(<<"w","a","l","l">>, <<>>, <<>>, "uint64", ""),
            Fld(<<"e","x","t">>, <<>>, <<>>, "int64", ""),
            Fld(<<"l","o","c">>, <<>>, <<>>, "ptr", "Location") >>]]

\* reflect.Type.Field over a struct type
FieldsOfType(t) == Types[t].fields

\* the record types that declare a method TableName() on their pointer
\* receiver, and the text it returns
TableNameMethods == [SomeTable |-> Chars("some_table_name")]

\* the record types that can be the type argument of a call
RecordTypes ==
    {"TestTable", "TestMySQLTable", "TestTable2", "LowerAuto", "DashFirst", "DashMid",
     "DashLast", "UnderMid", "TagUnder", "TimeFirst", "SomeTable", "Result"}

\* a type argument: a struct type (or a pointer to one) and what reflect shows
\* of it
StructT(t) == [kind |-> "struct", elem |-> t, type |-> Types[t]]

\* the type argument *t, and a type argument that is no struct: a scalar of
\* kind k, or a pointer to one when ptr
PtrT(t) == [kind |-> "ptr", elem |-> t, type |-> Types[t]]
ScalarT(k, ptr) ==
    [kind |-> IF ptr THEN "ptr" ELSE k, elem |-> IF ptr THEN k ELSE "",
     type |-> [name |-> <<>>, fields |-> <<>>]]

\* reflect.Kind of the type a pointer or struct field refers to
IsStructType(t) == t \in RecordTypes \cup {"Time", "Location", "Node"}

---------------------------------------------------------------------------
(* Package query: introspection.                                           *)

\* getFieldName: the db tag, else the lower-cased Go name; db:"-" is not ok
getFieldName(field) ==
    IF field.db = <<>> THEN [fieldName |-> ToLower(field.name), ok |-> TRUE]
    ELSE IF field.db = <<"-">> THEN [fieldName |-> field.db, ok |-> FALSE]
    ELSE [fieldName |-> field.db, ok |-> TRUE]

\* isAutoIncrement: the lower-cased db_key is searched for "autoincrement" and
\* for "AUTO_INCREMENT"
isAutoIncrement(field) ==
    \/ Contains(ToLower(field.key), Chars("autoincrement"))
    \/ Contains(ToLower(field.key),
                Chars("AUTO_INCREMENT"))

\* the first field of a struct sends fields and Name into the field's own type
Descends(field, i) ==
    i = 1 /\ (field.kind = "struct" \/ (field.kind = "ptr" /\ IsStructType(field.elem)))

\* fields: the loop over the fields of struct type t from field i on, with the
\* goto begin that restarts it on the type of a record-typed first field
RECURSIVE fieldsLoop(_, _, _)
fieldsLoop(flds, all, i) ==
    LET named(field, n) ==
            IF n.ok /\ n.fieldName # <<"_">>
            THEN IF Descends(field, i)
                 THEN fieldsLoop(FieldsOfType(field.elem), all, 1)
                 ELSE <<n.fieldName>> \o fieldsLoop(flds, all, i + 1)
            ELSE fieldsLoop(flds, all, i + 1)
    IN  IF i > Len(flds) THEN <<>>
        ELSE IF ~all /\ isAutoIncrement(flds[i]) THEN fieldsLoop(flds, all, i + 1)
        ELSE named(flds[i], getFieldName(flds[i]))

\* fields[T](alls...)
fields(T, all) == fieldsLoop(T.type.fields, all, 1)

\* Name: the loop over the fields of struct type t from field i on
RECURSIVE NameLoop(_, _)
NameLoop(type, i) ==
    IF i > Len(type.fields) THEN ToLower(type.name)
    ELSE IF Descends(type.fields[i], i) THEN NameLoop(Types[type.fields[i].elem], 1)
    ELSE IF type.fields[i].tbl # <<>> THEN type.fields[i].tbl
    ELSE NameLoop(type, i + 1)

\* Name[T]
Name(T) == NameLoop(T.type, 1)

\* checkType[T]
checkType(T) ==
    IF T.kind \in {"struct", "ptr"} /\ IsStructType(T.elem)
    THEN "" ELSE "ErrTypeIsNotStruct"

\* getFieldType: the db_type tag, else the SQL type of the field's Go kind
getFieldType(field) ==
    LET is(t) == [fieldType |-> t, err |-> ""]
    IN  IF field.typ # <<>> THEN is(field.typ)
        ELSE CASE field.kind \in {"int", "int8", "int16", "int32", "int64"} ->
                     is(Chars("integer"))
               [] field.kind = "uint8" -> is(Chars("tinyint"))
               [] field.kind \in {"uint", "uint16", "uint32", "uint64"} -> is(Chars("bigint"))
               [] field.kind \in {"float32", "float64"} -> is(Chars("double"))
               [] field.kind = "bool" -> is(<<"b","i","t">>)
               [] field.kind = "string" -> is(<<"t","e","x","t">>)
               [] field.kind = "bytes" -> is(<<"b","l","o","b">>)
               [] field.kind = "struct" ->
                     IF field.elem = "Time" THEN is(Chars("timestamp"))
                     ELSE [fieldType |-> <<>>, err |-> "unsupported struct type"]
               [] field.kind \in {"complex64", "complex128"} -> is(<<"b","l","o","b">>)
               [] OTHER -> [fieldType |-> <<>>, err |-> "unsupported type"]

---------------------------------------------------------------------------
(* Package query: the value marshaller.  A value is its dynamic type k and *)
(* its content v; 0 is the content of every zero value.                    *)

Val(k, v) == [k |-> k, v |-> v]

\* the dynamic type of the value a field holds
ValueKind(field) ==
    IF field.kind = "struct" /\ field.elem = "Time" THEN "time" ELSE field.kind

IntKinds == {"int", "int8", "int16", "int32", "int64"}
UintKinds == {"uint", "uint8", "uint16", "uint32", "uint64"}

\* the record of type t whose fields are all zero
ZeroRow(T) == [i \in 1..Len(T.type.fields) |-> Val(ValueKind(T.type.fields[i]), 0)]

\* encoding/gob of a complex number, and its decoding (0 for bytes gob did not write)
GobEncode(v) == Val("bytes", v + 100)
GobDecode(b) == IF b.v >= 100 THEN b.v - 100 ELSE 0

\* the fields Args and ArgsAppay always skip
SkippedByArgs(field) == field.db = <<"-">> \/ field.name = <<"_">>

\* Args: the loop over the fields from field i on
RECURSIVE ArgsLoop(_, _, _, _)
ArgsLoop(flds, row, forWrite, i) ==
    IF i > Len(flds) THEN <<>>
    ELSE LET field == flds[i]
             arg == IF field.kind \in {"complex64", "complex128"}
                    THEN GobEncode(row[i].v) ELSE row[i]
         IN  IF SkippedByArgs(field) THEN ArgsLoop(flds, row, forWrite, i + 1)
             ELSE IF forWrite /\ isAutoIncrement(field)
                  THEN ArgsLoop(flds, row, forWrite, i + 1)
                  ELSE <<arg>> \o ArgsLoop(flds, row, forWrite, i + 1)

\* Args(row, forWrite) for a row of type T: the values to write, or the slots
\* to scan into (a slot is shown by the value it holds)
Args(T, row, forWrite) ==
    IF checkType(T) # "" THEN [args |-> <<>>, err |-> "ErrTypeIsNotStruct"]
    ELSE [args |-> ArgsLoop(T.type.fields, row, forWrite, 1), err |-> ""]

\* the switch of ArgsAppay on the dynamic type of the scanned value: the new
\* value of the field, or the error (a reflect panic is recovered as an error)
SetField(field, old, arg) ==
    LET fk == ValueKind(field)
        ok(v) == [err |-> "", val |-> Val(fk, v)]
        panic == [err |-> "panic", val |-> old]
    IN  CASE arg.k = "string" -> IF fk = "string" THEN ok(arg.v) ELSE panic
          [] arg.k = "time" -> IF fk = "time" THEN ok(arg.v) ELSE panic
          [] arg.k = "bool" -> IF fk = "bool" THEN ok(arg.v) ELSE panic
          [] arg.k \in {"float32", "float64"} ->
                IF fk \in {"float32", "float64"} THEN ok(arg.v) ELSE panic
          [] arg.k \in IntKinds \cup UintKinds ->
                IF fk \in IntKinds \cup UintKinds THEN ok(arg.v)
                ELSE IF fk = "bool" THEN ok(IF arg.v = 1 THEN 1 ELSE 0)
                ELSE [err |-> "", val |-> old]
          [] arg.k = "bytes" ->
                IF fk = "bytes" THEN ok(arg.v)
                ELSE IF fk = "string" THEN ok(arg.v)
                ELSE IF fk \in {"complex64", "complex128"} THEN ok(GobDecode(arg))
                ELSE IF fk = "time" THEN ok(IF arg.v >= 200 THEN arg.v - 200 ELSE 0)
                ELSE [err |-> "type mismatch", val |-> old]
          [] OTHER -> ok(0)

\* the index of args that ArgsAppay reads for field i: the field's own index
ArgIndex(flds, i) == i

\* ArgsAppay: the loop over the fields from field i on
RECURSIVE ArgsAppayLoop(_, _, _, _)
ArgsAppayLoop(flds, row, args, i) ==
    IF i > Len(flds) THEN [err |-> "", row |-> row]
    ELSE IF SkippedByArgs(flds[i]) THEN ArgsAppayLoop(flds, row, args, i + 1)
    ELSE IF ArgIndex(flds, i) > Len(args) THEN [err |-> "panic", row |-> row]
    ELSE LET r == SetField(flds[i], row[i], args[ArgIndex(flds, i)])
         IN  IF r.err # "" THEN [err |-> r.err, row |-> row]
             ELSE ArgsAppayLoop(flds, [row EXCEPT ![i] = r.val], args, i + 1)

\* ArgsAppay(row, args) for a pointer to a row of type T
ArgsAppay(T, row, args) ==
    IF checkType(T) # "" THEN [err |-> "ErrTypeIsNotStruct", row |-> row]
    ELSE ArgsAppayLoop(T.type.fields, row, args, 1)

\* the argument row any of Args and ArgsAppay: a record value of type T
\* ("value"), a pointer to one ("ptr"), a scalar ("scalar"), a pointer to a
\* scalar ("ptrscalar") or the untyped nil ("nil")
AnyArg(form, T, row) == [form |-> form, T |-> T, row |-> row]

\* getRowVal: reflect.ValueOf(nil) is the zero Value, whose Type() panics
getRowVal(a) ==
    CASE a.form = "nil" -> [panic |-> "reflect.Value.Type panic", kind |-> "invalid"]
      [] a.form \in {"value", "ptr"} -> [panic |-> "", kind |-> "struct"]
      [] OTHER -> [panic |-> "", kind |-> "int"]

\* getRowValPtr: reflect.ValueOf(row).Elem() panics unless row is a pointer
getRowValPtr(a) ==
    CASE a.form = "ptr" -> [panic |-> "", kind |-> "struct"]
      [] a.form = "ptrscalar" -> [panic |-> "", kind |-> "int"]
      [] OTHER -> [panic |-> "reflect.Value.Elem panic", kind |-> "invalid"]

\* Args(row, forWrite) for any argument; a panic leaves Args (err names it)
ArgsOfAny(a, forWrite) ==
    IF getRowVal(a).panic # "" THEN [args |-> <<>>, err |-> getRowVal(a).panic]
    ELSE IF getRowVal(a).kind # "struct" THEN [args |-> <<>>, err |-> "ErrTypeIsNotStruct"]
    ELSE Args(a.T, a.row, forWrite)

\* ArgsAppay(row, args) for any argument; its deferred function recovers a
\* panic and returns it as an error
ArgsAppayOfAny(a, args) ==
    IF getRowValPtr(a).panic # "" THEN [err |-> getRowValPtr(a).panic, row |-> a.row]
    ELSE IF getRowValPtr(a).kind # "struct" THEN [err |-> "ErrTypeIsNotStruct", row |-> a.row]
    ELSE ArgsAppay(a.T, a.row, args)

---------------------------------------------------------------------------
(* Package query: the statement builders.                                  *)

\* Table: the loop over the fields from field i on; defs are the column
\* definitions and clauses made so far
RECURSIVE TableLoop(_, _, _)
TableLoop(flds, defs, i) ==
    LET typed(field, n, t) ==
            IF t.err # "" THEN [defs |-> <<>>, err |-> t.err]
            ELSE IF n.fieldName = <<"_">>
                 THEN TableLoop(flds,
                                IF Len(field.key) > 0
                                THEN Append(defs, TrimRight(field.key, " ")) ELSE defs,
                                i + 1)
                 ELSE TableLoop(flds,
                                Append(defs,
                                       TrimRight(ToLower(n.fieldName) \o <<" ">> \o t.fieldType
                                                 \o <<" ">> \o field.key, " ")),
                                i + 1)
        named(field, n) ==
            IF ~n.ok THEN TableLoop(flds, defs, i + 1)
            ELSE typed(field, n, getFieldType(field))
    IN  IF i > Len(flds) THEN [defs |-> defs, err |-> ""]
        ELSE named(flds[i], getFieldName(flds[i]))

\* Table[T]: t.NumField() panics when T is a pointer type
Table(T) ==
    LET made(l) ==
            IF l.err # "" THEN [stmt |-> <<>>, err |-> l.err]
            ELSE [stmt |-> Chars("CREATE TABLE IF NOT EXISTS ") \o Name(T) \o <<" ","(">>
                           \o Join(l.defs, <<","," ">>) \o <<")",";">>,
                  err |-> ""]
    IN  IF checkType(T) # "" THEN [stmt |-> <<>>, err |-> checkType(T)]
        ELSE IF T.kind = "ptr" THEN [stmt |-> <<>>, err |-> "panic"]
        ELSE made(TableLoop(T.type.fields, <<>>, 1))

\* Insert[T]
Insert(T) ==
    IF checkType(T) # "" THEN [stmt |-> <<>>, err |-> checkType(T)]
    ELSE LET fs == fields(T, FALSE)
         IN  [stmt |-> Chars("INSERT INTO ") \o Name(T)
                       \o <<"(">> \o Join(fs, <<",">>)
                       \o Chars(") VALUES(")
                       \o TrimRight(Repeat(<<"?",",">>, Len(fs)), ",")
                       \o <<")",";">>,
              err |-> ""]

\* a builder that refuses no list of where fragments
UpdateNeverRefused(wheres) == FALSE

\* the guard of Update on its where fragments
UpdateRefused(wheres) == Len(wheres) = 0

\* Update[T](wheres...)
Update(T, wheres) ==
    IF checkType(T) # "" THEN [stmt |-> <<>>, err |-> checkType(T)]
    ELSE IF UpdateRefused(wheres)
         THEN [stmt |-> <<>>, err |-> "ErrWhereClauseRequiredForUpdate"]
    ELSE [stmt |-> <<"U","P","D","A","T","E"," ">> \o Name(T)
                   \o <<" ","S","E","T"," ">>
                   \o Join(fields(T, FALSE), <<"=","?",",">>) \o <<"=","?">>
                   \o <<" ","W","H","E","R","E"," ">>
                   \o Join(wheres, <<"?"," ","A","N","D"," ">>) \o <<"?">>
                   \o <<";">>,
          err |-> ""]


\* SelectAttr and Join; a nil *SelectAttr has nil = TRUE, a nil Paginator has
\* set = FALSE, a nil Name is the empty text
NoPaginator == [set |-> FALSE, Offset |-> 0, Limit |-> 0]
Paginator(offset, limit) == [set |-> TRUE, Offset |-> offset, Limit |-> limit]
SelectAttr(wheres, paginator) ==
    [nil |-> FALSE, Paginator |-> paginator, Wheres |-> wheres, WheresJoinOr |-> FALSE,
     GroupBy |-> <<>>, OrderBy |-> <<>>, Alias |-> <<>>, Joins |-> <<>>,
     Distinct |-> FALSE, Name |-> <<>>]
NilAttr == [SelectAttr(<<>>, NoPaginator) EXCEPT !.nil = TRUE]
JoinAttr(join, name, alias, on) ==
    [Join |-> join, Name |-> name, Alias |-> alias, On |-> on, Fields |-> <<>>,
     Select |-> <<>>]

\* MakeJoin[T](join)
MakeJoin(T, join) ==
    [join EXCEPT
        !.Name = IF Len(join.Name) = 0 THEN Name(T) ELSE join.Name,
        !.Fields = join.Fields \o
            [i \in 1..Len(fields(T, TRUE)) |->
                IF Len(join.Alias) > 0
                THEN join.Alias \o <<".">> \o fields(T, TRUE)[i]
                ELSE fields(T, TRUE)[i]]]

\* Select: the text of the joins, and the fields they contribute
RECURSIVE SelectJoins(_)
SelectJoins(joins) ==
    IF joins = <<>> THEN <<>>
    ELSE LET join == joins[1]
             table == IF Len(join.Select) > 0
                      THEN <<"(">> \o join.Select \o <<")">> ELSE join.Name
         IN  <<" ">> \o TrimSpace(join.Join \o <<" ","j","o","i","n">>) \o <<" ">>
             \o table \o <<" ">> \o join.Alias \o <<" ","o","n"," ">> \o join.On
             \o SelectJoins(Tail(joins))

\* joins that contribute no fields
NoJoinsFields(joins) == <<>>

RECURSIVE SelectJoinsFields(_)
SelectJoinsFields(joins) ==
    IF joins = <<>> THEN <<>> ELSE joins[1].Fields \o SelectJoinsFields(Tail(joins))

\* a limit clause that leaves LIMIT out when the Paginator sets no Limit
SelectLimitOrOffset(paginator, n) ==
    IF ~paginator.set THEN <<>>
    ELSE IF paginator.Limit <= 0 /\ paginator.Offset <= 0 THEN <<>>
    ELSE IF paginator.Limit <= 0 THEN Chars(" OFFSET ") \o Itoa(paginator.Offset)
    ELSE <<" ","L","I","M","I","T"," ">> \o Itoa(paginator.Limit)
         \o Chars(" OFFSET ") \o Itoa(paginator.Offset)

\* Select: the limit clause, n being the default number of rows
SelectLimit(paginator, n) ==
    IF ~paginator.set THEN <<>>
    ELSE IF paginator.Limit <= 0 /\ paginator.Offset <= 0 THEN <<>>
    ELSE <<" ","L","I","M","I","T"," ">>
         \o Itoa(IF paginator.Limit > 0 THEN paginator.Limit ELSE n)
         \o Chars(" OFFSET ") \o Itoa(paginator.Offset)

\* Select[T](attr), n being the default number of rows (the package's numRows)
Select(T, attr, n) ==
    IF checkType(T) # "" THEN [stmt |-> <<>>, err |-> checkType(T)]
    ELSE LET own == fields(T, TRUE)
             name0 == IF ~attr.nil /\ Len(attr.Name) > 0 THEN attr.Name ELSE Name(T)
             name == IF ~attr.nil /\ Len(attr.Alias) > 0
                     THEN name0 \o <<" ">> \o attr.Alias ELSE name0
             distinct == IF ~attr.nil /\ attr.Distinct
                         THEN Chars("DISTINCT ") ELSE <<>>
             joins == IF attr.nil THEN <<>> ELSE SelectJoins(attr.Joins)
             where == IF ~attr.nil /\ Len(attr.Wheres) > 0
                      THEN <<" ","W","H","E","R","E"," ">> \o
                           Join(attr.Wheres,
                                IF attr.WheresJoinOr THEN <<" ","O","R"," ">>
                                ELSE <<" ","A","N","D"," ">>)
                      ELSE <<>>
             groupby == IF ~attr.nil /\ Len(attr.GroupBy) > 0
                        THEN Chars(" GROUP BY ") \o attr.GroupBy
                        ELSE <<>>
             orderby == IF ~attr.nil /\ Len(attr.OrderBy) > 0
                        THEN Chars(" ORDER BY ") \o attr.OrderBy
                        ELSE <<>>
             limit == IF attr.nil THEN <<>> ELSE SelectLimit(attr.Paginator, n)
             aliased == IF ~attr.nil /\ Len(attr.Alias) > 0
                        THEN [i \in 1..Len(own) |-> attr.Alias \o <<".">> \o own[i]]
                        ELSE own
             all == IF attr.nil THEN own ELSE aliased \o SelectJoinsFields(attr.Joins)
         IN  [stmt |-> <<"S","E","L","E","C","T"," ">> \o distinct
                       \o Join(all, <<","," ">>)
                       \o <<" ","F","R","O","M"," ">> \o name
                       \o joins \o where \o groupby \o orderby \o limit \o <<";">>,
              err |-> ""]

\* Count[T](attr)
Count(T, attr) ==
    IF checkType(T) # "" THEN [stmt |-> <<>>, err |-> checkType(T)]
    ELSE LET where == IF ~attr.nil /\ Len(attr.Wheres) > 0
                      THEN Join(attr.Wheres, <<" ","a","n","d"," ">>) ELSE <<>>
         IN  [stmt |-> Chars("SELECT count(*) from ") \o Name(T)
                       \o (IF Len(where) > 0
                           THEN <<" ","w","h","e","r","e"," ">> \o where ELSE <<>>)
                       \o <<";">>,
              err |-> ""]

\* a Delete that is refused without where fragments, as Update is
DeleteRefused(T, wheres) ==
    IF checkType(T) # "" THEN [stmt |-> <<>>, err |-> checkType(T)]
    ELSE IF Len(wheres) = 0 THEN [stmt |-> <<>>, err |-> "ErrWhereClauseRequired"]
    ELSE [stmt |-> Chars("DELETE from ") \o Name(T) \o Chars(" where ")
                      \o Join(wheres, <<"?"," ","A","N","D"," ">>) \o <<"?", ";">>,
          err |-> ""]

\* a statement that deletes the rows that satisfy any one of the conditions
DeleteAny(T, wheres) ==
    [stmt |-> Chars("DELETE from ") \o Name(T) \o Chars(" where ")
                  \o Join(wheres, Chars("? OR ")) \o <<"?", ";">>,
     err |-> ""]

\* Delete[T](wheres...)
Delete(T, wheres) ==
    IF checkType(T) # "" THEN [stmt |-> <<>>, err |-> checkType(T)]
    ELSE LET where == IF Len(wheres) > 0
                      THEN Join(wheres, <<"?"," ","A","N","D"," ">>) ELSE <<>>
         IN  [stmt |-> Chars("DELETE from ") \o Name(T)
                       \o (IF Len(where) > 0
                           THEN <<" ","w","h","e","r","e"," ">> \o where \o <<"?">>
                           ELSE <<>>)
                       \o <<";">>,
              err |-> ""]


---------------------------------------------------------------------------
(* The database behind database/sql, as the drivers of the tests (sqlite3  *)
(* and mysql) present it: it reads the text of a statement, binds the      *)
(* arguments to its ? placeholders in order, and runs it on a table.       *)
(* Keywords and identifiers are case-insensitive: it reads the lower-cased *)
(* text.  A table is kept in primary-key order; a row maps column names to *)
(* values.                                                                 *)

\* the dialect of the table of record type t
Dialect(t) == IF t = "TestMySQLTable" THEN "mysql" ELSE "sqlite"

\* the columns CREATE TABLE (Table[T]) declares for record type t
Columns(t) ==
    LET flds == FieldsOfType(t)
        keep == {i \in 1..Len(flds) :
                    getFieldName(flds[i]).ok /\ getFieldName(flds[i]).fieldName # <<"_">>}
    IN  {ToLower(getFieldName(flds[i]).fieldName) : i \in keep}

\* the db_key text of column c of record type t
ColumnKey(t, c) ==
    LET flds == FieldsOfType(t)
        i == CHOOSE j \in 1..Len(flds) :
                getFieldName(flds[j]).ok /\ ToLower(getFieldName(flds[j]).fieldName) = c
    IN  ToLower(flds[i].key)

\* the column the database numbers itself, if any (else the empty text)
AutoColumn(t) ==
    IF \E c \in Columns(t) :
          \/ Contains(ColumnKey(t, c), Chars("autoincrement"))
          \/ Contains(ColumnKey(t, c),
                      Chars("auto_increment"))
    THEN CHOOSE c \in Columns(t) :
          \/ Contains(ColumnKey(t, c), Chars("autoincrement"))
          \/ Contains(ColumnKey(t, c),
                      Chars("auto_increment"))
    ELSE <<>>

\* the columns that admit no two rows with the same value
UniqueColumns(t) ==
    {c \in Columns(t) :
        \/ Contains(ColumnKey(t, c), Chars("primary key"))
        \/ Contains(ColumnKey(t, c), <<"u","n","i","q","u","e">>)
        \/ \E i \in 1..Len(FieldsOfType(t)) :
              /\ FieldsOfType(t)[i].name = <<"_">>
              /\ Contains(ToLower(FieldsOfType(t)[i].key),
                          Chars("unique key(") \o c \o <<"(">>)}

\* the value the database keeps for a bound argument: integers of any width
\* are one integer type, a nil byte sequence is NULL
StoreVal(v) ==
    IF v.k \in IntKinds \cup UintKinds THEN Val("int64", v.v)
    ELSE IF v.k = "bytes" /\ v.v = 0 THEN Val("nil", 0)
    ELSE v

\* the value the driver hands to Scan for a stored value: mysql returns text
\* as bytes
DriverVal(dialect, v) ==
    IF dialect = "mysql" /\ v.k = "string" THEN Val("bytes", v.v) ELSE v

\* fmt's %d read back
RECURSIVE Atoi(_)
Atoi(s) ==
    IF s = <<>> THEN 0
    ELSE 10 * Atoi(SubSeq(s, 1, Len(s) - 1))
         + ((CHOOSE d \in 1..10 : Digits[d] = s[Len(s)]) - 1)
IsNumber(s) == s # <<>> /\ \A i \in 1..Len(s) : \E d \in 1..10 : Digits[d] = s[i]

\* one predicate of a WHERE clause: col=? takes an argument, col is null none
WhereItem(w) ==
    IF w # <<>> /\ w[Len(w)] = "?"
    THEN IF Len(w) >= 2 /\ w[Len(w) - 1] = "="
         THEN [col |-> SubSeq(w, 1, Len(w) - 2), op |-> "eq"]
         ELSE [col |-> <<>>, op |-> "bad"]
    ELSE IF Contains(w, Chars(" is null"))
            /\ After(w, Chars(" is null")) = <<>>
         THEN [col |-> Before(w, Chars(" is null")), op |-> "isnull"]
         ELSE [col |-> <<>>, op |-> "bad"]

\* the WHERE clause of a lower-cased statement: its predicates and connective
WhereClause(text) ==
    LET or == Contains(text, <<" ","o","r"," ">>)
        parts == Split(text, IF or THEN <<" ","o","r"," ">> ELSE <<" ","a","n","d"," ">>)
    IN  [items |-> [i \in 1..Len(parts) |-> WhereItem(parts[i])], or |-> or]

\* the number of arguments the predicates take
WhereArgs(items) == Cardinality({i \in 1..Len(items) : items[i].op = "eq"})

\* whether row r satisfies the clause, args being the arguments bound to it
WhereHolds(clause, args, r) ==
    LET items == clause.items
        argOf(i) == args[Cardinality({j \in 1..i : items[j].op = "eq"})]
        holds(i) == IF items[i].op = "eq"
                    THEN StoreVal(argOf(i)).k # "nil" /\ r[items[i].col] = StoreVal(argOf(i))
                    ELSE r[items[i].col].k = "nil"
    IN  IF clause.or THEN \E i \in 1..Len(items) : holds(i)
        ELSE \A i \in 1..Len(items) : holds(i)

\* a parsed statement; verb "bad" is a syntax error
BadStmt ==
    [verb |-> "bad", table |-> <<>>, cols |-> <<>>, nargs |-> 0,
     where |-> [items |-> <<>>, or |-> FALSE], limit |-> -1, offset |-> 0]

\* the clauses of a statement that follow its table: WHERE, ORDER BY, LIMIT
\* (the tables here are not joined or grouped)
ParseTail(p, rest) ==
    LET kwLimit == <<" ","l","i","m","i","t"," ">>
        kwOffset == Chars(" offset ")
        kwOrder == Chars(" order by ")
        kwWhere == <<" ","w","h","e","r","e"," ">>
        read(name, hasWhere, wtext, clause, lim, limN, offN) ==
            IF \/ Contains(name, <<" ">>)
               \/ hasWhere /\ wtext = <<>>
               \/ \E i \in 1..Len(clause.items) : clause.items[i].op = "bad"
               \/ lim # <<>> /\ ~(IsNumber(limN) /\ IsNumber(offN))
            THEN BadStmt
            ELSE [p EXCEPT !.table = name, !.where = clause,
                           !.nargs = p.nargs + WhereArgs(clause.items),
                           !.limit = IF lim = <<>> THEN -1 ELSE Atoi(limN),
                           !.offset = IF lim = <<>> THEN 0 ELSE Atoi(offN)]
        clauses(r2, wtext, lim) ==
            read(Before(r2, kwWhere), Contains(r2, kwWhere), wtext, WhereClause(wtext),
                 lim, Before(lim, kwOffset), After(lim, kwOffset))
        split(r2, lim) ==
            clauses(r2, IF Contains(r2, kwWhere) THEN After(r2, kwWhere) ELSE <<>>, lim)
    IN  split(Before(Before(rest, kwLimit), kwOrder),
              IF Contains(rest, kwLimit) THEN After(rest, kwLimit) ELSE <<>>)

\* the database's reading of the text of a statement
ParseStmt(stmt) ==
    LET kwInsert == Chars("insert into ")
        kwValues == Chars(") values(")
        kwUpdate == <<"u","p","d","a","t","e"," ">>
        kwSet == <<" ","s","e","t"," ">>
        kwDelete == Chars("delete from ")
        kwSelect == <<"s","e","l","e","c","t"," ">>
        kwFrom == <<" ","f","r","o","m"," ">>
        kwWhere == <<" ","w","h","e","r","e"," ">>
        insert(head, marks, cols) ==
            IF marks = <<>> \/ marks[Len(marks)] # ")" \/ cols = <<>> THEN BadStmt
            ELSE [BadStmt EXCEPT !.verb = "insert", !.table = Before(head, <<"(">>),
                                 !.cols = cols, !.nargs = CountOf(marks, <<"?">>)]
        update(sets, tbl, tail) ==
            IF sets = <<>> \/ \E i \in 1..Len(sets) :
                   After(sets[i], <<"=">>) # <<"?">> \/ ~Contains(sets[i], <<"=">>)
            THEN BadStmt
            ELSE ParseTail(
                   [BadStmt EXCEPT !.verb = "update",
                       !.cols = [i \in 1..Len(sets) |-> Before(sets[i], <<"=">>)],
                       !.nargs = Len(sets)],
                   tbl \o tail)
        select(cols, rest) ==
            IF cols = <<>> THEN BadStmt
            ELSE IF cols = <<Chars("count(*)")>>
            THEN ParseTail([BadStmt EXCEPT !.verb = "count"], rest)
            ELSE ParseTail([BadStmt EXCEPT !.verb = "select", !.cols = cols], rest)
        head(body) == After(Before(body, kwValues), kwInsert)
        tailOf(text) == IF Contains(text, kwWhere) THEN kwWhere \o After(text, kwWhere) ELSE <<>>
        read(body) ==
            IF HasPrefix(body, kwInsert) /\ Contains(body, kwValues)
            THEN insert(head(body), After(body, kwValues),
                        Split(After(head(body), <<"(">>), <<",">>))
            ELSE IF HasPrefix(body, kwUpdate) /\ Contains(body, kwSet)
            THEN update(Split(Before(After(body, kwSet), kwWhere), <<",">>),
                        Before(After(body, kwUpdate), kwSet),
                        tailOf(After(body, kwSet)))
            ELSE IF HasPrefix(body, kwDelete)
            THEN ParseTail([BadStmt EXCEPT !.verb = "delete"], After(body, kwDelete))
            ELSE IF HasPrefix(body, kwSelect) /\ Contains(body, kwFrom)
            THEN select(Split(After(Before(body, kwFrom), kwSelect), <<","," ">>),
                        After(body, kwFrom))
            ELSE BadStmt
        strip(s) == IF s # <<>> /\ s[Len(s)] = ";" THEN SubSeq(s, 1, Len(s) - 1) ELSE s
    IN  read(strip(ToLower(stmt)))

\* the record types whose tables the tests create
DbTypes == {"TestTable", "TestMySQLTable"}

\* the column that is the primary key, and the columns that admit no NULL
KeyColumn(t) ==
    CHOOSE c \in Columns(t) :
        Contains(ColumnKey(t, c), Chars("primary key"))
NotNullColumns(t) ==
    {c \in Columns(t) : Contains(ColumnKey(t, c), Chars("not null"))}

\* what CREATE TABLE left in the database for each record type
Schema ==
    [t \in DbTypes |->
        [name |-> Name(StructT(t)), dialect |-> Dialect(t), cols |-> Columns(t),
         auto |-> AutoColumn(t), key |-> KeyColumn(t), unique |-> UniqueColumns(t),
         notnull |-> NotNullColumns(t)]]

\* the database after CREATE TABLE for record type t: no row, no number given
\* out yet
EmptyDb(t) == [rows |-> {}, seq |-> 0, sch |-> Schema[t]]

\* no uncommitted work
NoWork == [rows |-> {}, seq |-> 0]

\* the rows of S in primary-key order
RECURSIVE SortRows(_, _)
SortRows(S, key) ==
    LET rest(r) == <<r>> \o SortRows(S \ {r}, key)
    IN  IF S = {} THEN <<>>
        ELSE rest(CHOOSE x \in S : \A y \in S : x[key].v <= y[key].v)

\* the text of a statement as the database compiles it for the table of t
Compile(sch, stmt) ==
    LET check(p) ==
            IF p.verb = "bad" THEN [p |-> p, err |-> "syntax error"]
            ELSE IF p.table # sch.name THEN [p |-> p, err |-> "no such table"]
            ELSE IF \/ \E i \in 1..Len(p.cols) : p.cols[i] \notin sch.cols
                    \/ \E i \in 1..Len(p.where.items) :
                          p.where.items[i].col \notin sch.cols
                 THEN [p |-> p, err |-> "no such column"]
            ELSE [p |-> p, err |-> ""]
    IN  check(ParseStmt(stmt))

\* a compiled statement run on database d with its arguments bound
Run(d, p, args) ==
    LET sch == d.sch
        refuse(e) == [db |-> d, err |-> e, out |-> <<>>]
        given(c) == \E i \in 1..Len(p.cols) : p.cols[i] = c
        bound(c) == StoreVal(args[CHOOSE i \in 1..Len(p.cols) : p.cols[i] = c])
        numbered(c) ==
            /\ c = sch.auto
            /\ \/ ~given(c)
               \/ bound(c).k = "nil"
               \/ sch.dialect = "mysql" /\ bound(c).v = 0
        new == [c \in sch.cols |->
                   IF numbered(c) THEN Val("int64", d.seq + 1)
                   ELSE IF given(c) THEN bound(c) ELSE Val("nil", 0)]
        wargs == SubSeq(args, Len(args) - WhereArgs(p.where.items) + 1, Len(args))
        hit == {r \in d.rows : WhereHolds(p.where, wargs, r)}
        set(r) == [c \in sch.cols |-> IF given(c) THEN bound(c) ELSE r[c]]
        broken(rows, n) ==
            \/ Cardinality(rows) # n
            \/ \E c \in sch.unique : \E r1, r2 \in rows :
                  r1 # r2 /\ r1[c] = r2[c] /\ r1[c].k # "nil"
            \/ \E c \in sch.notnull : \E r \in rows : r[c].k = "nil"
        store(rows, n, seq) ==
            IF broken(rows, n) THEN refuse("constraint failed")
            ELSE [db |-> [d EXCEPT !.rows = rows, !.seq = seq], err |-> "", out |-> <<>>]
        page(ordered) ==
            SubSeq(ordered, p.offset + 1,
                   IF p.limit < 0 \/ p.offset + p.limit > Len(ordered)
                   THEN Len(ordered) ELSE p.offset + p.limit)
        project(rows) ==
            [k \in 1..Len(rows) |->
                [j \in 1..Len(p.cols) |-> DriverVal(sch.dialect, rows[k][p.cols[j]])]]
        insert(r) ==
            store(d.rows \cup {r}, Cardinality(d.rows) + 1,
                  IF sch.auto # <<>> /\ r[sch.auto].v > d.seq THEN r[sch.auto].v ELSE d.seq)
    IN  IF Len(args) # p.nargs THEN refuse("wrong number of arguments")
        ELSE CASE p.verb = "insert" -> insert(new)
               [] p.verb = "update" ->
                     store((d.rows \ hit) \cup {set(r) : r \in hit}, Cardinality(d.rows), d.seq)
               [] p.verb = "delete" -> store(d.rows \ hit, Cardinality(d.rows \ hit), d.seq)
               [] p.verb = "count" ->
                     [db |-> d, err |-> "", out |-> <<<<Val("int64", Cardinality(hit))>>>>]
               [] OTHER -> [db |-> d, err |-> "", out |-> project(page(SortRows(hit, sch.key)))]

---------------------------------------------------------------------------
(* database/sql: a caller's connection and its transaction.  A session     *)
(* holds the database as the connection sees it (db), the uncommitted work *)
(* of its transaction, and the driver calls it made.  The fail-th driver   *)
(* call of a session fails (none when fail is 0).  A transaction reads the *)
(* database at its first statement and holds it until it ends.             *)

NewSession(t, d, fail) ==
    [t |-> t, db |-> d, work |-> NoWork, open |-> FALSE, held |-> FALSE, err |-> "",
     calls |-> 0, fail |-> fail, log |-> <<>>, stmt |-> [p |-> BadStmt, err |-> ""],
     out |-> <<>>, pagination |-> 0, row |-> <<>>]

\* the session after one more driver call, which fails or not
Called(s, call, on) ==
    [s EXCEPT !.calls = @ + 1, !.log = Append(@, [call |-> call, on |-> on]),
              !.err = IF s.calls + 1 = s.fail THEN "driver: bad connection" ELSE "",
              !.out = <<>>]

\* db.Begin
Begin(s) ==
    LET begun(c) == IF c.err # "" THEN c ELSE [c EXCEPT !.open = TRUE]
    IN  begun(Called(s, "Begin", "db"))

\* a statement sent on the transaction ("tx") or on the bare connection ("db")
Statement(s, call, on, compiled, args) ==
    LET ran(c, r) ==
            IF r.err # "" THEN [c EXCEPT !.err = r.err]
            ELSE IF on = "tx" THEN [c EXCEPT !.work = r.db, !.held = TRUE, !.out = r.out]
            ELSE [c EXCEPT !.db = r.db, !.out = r.out]
        send(c) ==
            IF c.err # "" THEN c
            ELSE IF compiled.err # "" THEN [c EXCEPT !.err = compiled.err]
            ELSE ran(c, Run(IF on = "tx" /\ s.held THEN s.work ELSE s.db,
                            compiled.p, args))
    IN  send(Called(s, call, on))

\* tx.Prepare
Prepare(s, stmt) ==
    LET prepared(c, compiled) ==
            IF c.err # "" THEN c
            ELSE [c EXCEPT !.err = compiled.err, !.stmt = compiled]
    IN  prepared(Called(s, "Prepare", "tx"), Compile(s.db.sch, stmt))

\* stmt.Exec of the prepared statement, tx.Exec and Query
StmtExec(s, args) == Statement(s, "Exec", "tx", s.stmt, args)
Exec(s, on, stmt, args) == Statement(s, "Exec", on, Compile(s.db.sch, stmt), args)
Query(s, on, stmt, args) == Statement(s, "Query", on, Compile(s.db.sch, stmt), args)

\* the database a transaction leaves when its work is dropped: mysql does not
\* take back the numbers it gave out
Dropped(s) ==
    IF s.held /\ s.db.sch.dialect = "mysql" THEN [s.db EXCEPT !.seq = s.work.seq]
    ELSE s.db

\* tx.Commit: the error of the call is the error of the session
Commit(s) ==
    LET ended(c) ==
            [c EXCEPT !.open = FALSE, !.held = FALSE, !.work = NoWork,
                      !.db = IF c.err = "" /\ s.held THEN s.work ELSE Dropped(s)]
    IN  ended(Called(s, "Commit", "tx"))

\* a transaction end that keeps the work it should drop
RollbackKeeps(s) ==
    [s EXCEPT !.open = FALSE, !.held = FALSE, !.work = NoWork,
              !.db = IF s.held THEN s.work ELSE s.db,
              !.log = Append(@, [call |-> "Rollback", on |-> "tx"])]

\* tx.Rollback: its own error is dropped
Rollback(s) ==
    [s EXCEPT !.open = FALSE, !.held = FALSE, !.work = NoWork, !.db = Dropped(s),
              !.log = Append(@, [call |-> "Rollback", on |-> "tx"])]

\* a deferred function that commits whatever the error is
EndTxCommits(s) == Commit(s)

\* the deferred function of Insert, Update, Set and Delete
EndTx(s) == IF s.err # "" THEN Rollback(s) ELSE Commit(s)

---------------------------------------------------------------------------
(* Package sqlh: reading.  A handler takes the caller's session and        *)
(* returns it with the error, the rows (out) and the row it returns.       *)

\* the default number of rows of List
numRows == 10

Nil == Val("nil", 0)
Where(field, value) == [Field |-> field, Value |-> value]

\* wheresToAttrs
wheresToAttrs(wheres) == [i \in 1..Len(wheres) |-> [type |-> "Where", v |-> wheres[i]]]

\* listStatement: the statement, its arguments and the error
listStatement(T, previous, orderBy, limit, listAttrs) ==
    LET known == {"Where", "WheresJoinOr", "Join", "Alias", "Distinct", "Name"}
        ofType(ty) == SelectSeq(listAttrs, LAMBDA a : a.type = ty)
        lastOf(found, default) == IF found = <<>> THEN default ELSE found[Len(found)].v
        build(wheres, valued) ==
            [SelectAttr([i \in 1..Len(wheres) |->
                            IF wheres[i].v.Value = Nil THEN wheres[i].v.Field
                            ELSE wheres[i].v.Field \o <<"?">>],
                        Paginator(previous, limit))
             EXCEPT !.WheresJoinOr = lastOf(ofType("WheresJoinOr"), FALSE),
                    !.Joins = [i \in 1..Len(ofType("Join")) |-> ofType("Join")[i].v],
                    !.Alias = lastOf(ofType("Alias"), <<>>),
                    !.Distinct = lastOf(ofType("Distinct"), FALSE),
                    !.Name = lastOf(ofType("Name"), <<>>),
                    !.OrderBy = orderBy]
        made(sel, valued) ==
            [stmt |-> sel.stmt, args |-> [i \in 1..Len(valued) |-> valued[i].v.Value],
             err |-> sel.err]
        select(wheres, valued) == made(Select(T, build(wheres, valued), numRows), valued)
    IN  IF \E i \in 1..Len(listAttrs) : listAttrs[i].type \notin known
        THEN [stmt |-> <<>>, args |-> <<>>, err |-> "invalid list attribute type"]
        ELSE select(ofType("Where"),
                    SelectSeq(ofType("Where"), LAMBDA a : a.v.Value # Nil))

\* the sum of the first k numbers of f
RECURSIVE SumTo(_, _)
SumTo(f, k) == IF k = 0 THEN 0 ELSE f[k] + SumTo(f, k - 1)

\* QueryRange: the scan arguments of one row, the slots of every field of the
\* yielded struct in turn (fresh holds the record each field scans into)
RECURSIVE ScanArgs(_, _, _)
ScanArgs(comps, fresh, k) ==
    IF k > Len(comps) THEN <<>>
    ELSE Args(comps[k].T, fresh[k], FALSE).args \o ScanArgs(comps, fresh, k + 1)

\* QueryRange: the loop over the records the query returned, from record i on.
\* comps are the fields of the yielded struct, buf is the row buffer: a field
\* that is a pointer gets a new record for each row, the others are reused
RECURSIVE RangeRows(_, _, _, _)
RangeRows(comps, buf, recs, i) ==
    LET n == Len(comps)
        fresh == [k \in 1..n |-> IF comps[k].ptr THEN ZeroRow(comps[k].T) ELSE buf[k]]
        slots(k) == Args(comps[k].T, fresh[k], FALSE)
        widths == [k \in 1..n |-> Len(slots(k).args)]
        scanned(k) == SubSeq(recs[i], SumTo(widths, k - 1) + 1, SumTo(widths, k))
        stop(e) == [rows |-> <<>>, err |-> e]
        yield(row, more) == [rows |-> <<row>> \o more.rows, err |-> more.err]
        apply(applied) ==
            IF \E k \in 1..n : applied[k].err # ""
            THEN stop("failed to apply scanned values")
            ELSE yield([k \in 1..n |-> applied[k].row],
                       RangeRows(comps, [k \in 1..n |-> applied[k].row], recs, i + 1))
    IN  IF i > Len(recs) THEN stop("")
        ELSE IF \E k \in 1..n : slots(k).err # "" THEN stop("failed to get arguments")
        ELSE IF Len(ScanArgs(comps, fresh, 1)) # Len(recs[i]) THEN stop("failed to scan row")
        ELSE apply([k \in 1..n |-> ArgsAppay(comps[k].T, fresh[k], scanned(k))])

\* QueryRange[T](db, selectQuery, queryArgs...) with every yielded row taken
QueryRange(s, on, comps, selectQuery, queryArgs) ==
    LET range(q, r) == IF q.err # "" THEN q ELSE [q EXCEPT !.out = r.rows, !.err = r.err]
        rows(q) ==
            range(q, RangeRows(comps, [k \in 1..Len(comps) |-> ZeroRow(comps[k].T)],
                               q.out, 1))
    IN  rows(Query(s, on, selectQuery, queryArgs))

\* ListRange[T]: QueryRange[struct{ In T }], each row yielded as its field In
ListRange(s, on, T, offset, orderBy, limit, listAttrs) ==
    LET unwrap(q) == [q EXCEPT !.out = [i \in 1..Len(q.out) |-> q.out[i][1]]]
        range(st) ==
            IF st.err # "" THEN [s EXCEPT !.err = st.err, !.out = <<>>]
            ELSE unwrap(QueryRange(s, on, <<[T |-> T, ptr |-> T.kind = "ptr"]>>,
                                   st.stmt, st.args))
    IN  range(listStatement(T, offset, orderBy, limit, listAttrs))

\* a ListRows whose pagination is the number of rows of the page alone
ListRowsCounted(s, on, T, previous, orderBy, limit, listAttrs) ==
    LET listed(l) == [l EXCEPT !.pagination = Len(l.out)]
    IN  listed(ListRange(s, on, T, previous, orderBy, limit, listAttrs))

\* ListRows[T]
ListRows(s, on, T, previous, orderBy, limit, listAttrs) ==
    LET listed(l) == [l EXCEPT !.pagination = previous + Len(l.out)]
    IN  listed(ListRange(s, on, T, previous, orderBy, limit, listAttrs))

\* the limit Get and Set read with, to tell one row from several
GetLimit == 2

\* a Get that returns the first row found, however many there are
GetFirstRow(s, on, T, wheres) ==
    LET got(l) ==
            IF l.err # "" THEN [l EXCEPT !.row = <<>>]
            ELSE IF Len(l.out) = 0 THEN [l EXCEPT !.err = "sql.ErrNoRows", !.row = <<>>]
            ELSE [l EXCEPT !.row = l.out[1]]
    IN  IF Len(wheres) = 0 THEN [s EXCEPT !.err = "ErrWhereClauseRequired", !.row = <<>>]
        ELSE got(ListRows(s, on, T, 0, <<>>, 2, wheresToAttrs(wheres)))

\* Get[T](db, wheres...)
Get(s, on, T, wheres) ==
    LET got(l) ==
            IF l.err # "" THEN [l EXCEPT !.row = <<>>]
            ELSE CASE Len(l.out) = 0 -> [l EXCEPT !.err = "sql.ErrNoRows", !.row = <<>>]
                   [] Len(l.out) = 1 -> [l EXCEPT !.row = l.out[1]]
                   [] OTHER -> [l EXCEPT !.err = "ErrMultipleRowsFound", !.row = <<>>]
    IN  IF Len(wheres) = 0 THEN [s EXCEPT !.err = "ErrWhereClauseRequired", !.row = <<>>]
        ELSE got(ListRows(s, on, T, 0, <<>>, GetLimit, wheresToAttrs(wheres)))

---------------------------------------------------------------------------
(* Package sqlh: writing.  Each handler begins a transaction and ends it   *)
(* in its deferred function.                                               *)

\* a loop that executes nothing
InsertNoRows(s, T, rows, i) == s

\* Insert: the loop over the rows, from row i on
RECURSIVE InsertRows(_, _, _, _)
InsertRows(s, T, rows, i) ==
    LET exec(a) == IF a.err # "" THEN [s EXCEPT !.err = a.err] ELSE StmtExec(s, a.args)
    IN  IF i > Len(rows) \/ s.err # "" THEN s
        ELSE InsertRows(exec(Args(T, rows[i], TRUE)), T, rows, i + 1)

\* Insert[T](db, rows...)
sqlhInsert(s, T, rows) ==
    LET prepared(p) == IF p.err # "" THEN p ELSE InsertRows(p, T, rows, 1)
        begun(b, ins) == IF b.err # "" THEN b ELSE EndTx(prepared(Prepare(b, ins.stmt)))
        made(ins) == IF ins.err # "" THEN [s EXCEPT !.err = ins.err] ELSE begun(Begin(s), ins)
    IN  made(Insert(T))

\* the Field of each where condition, and the Value of each
WhereFields(wheres) == [i \in 1..Len(wheres) |-> wheres[i].Field]
WhereValues(wheres) == [i \in 1..Len(wheres) |-> wheres[i].Value]

\* Update: the loop over the attributes, from attribute i on
RECURSIVE UpdateAttrs(_, _, _, _)
UpdateAttrs(s, T, attrs, i) ==
    LET exec(p, a) ==
            IF p.err # "" THEN p
            ELSE IF a.err # "" THEN [p EXCEPT !.err = a.err]
            ELSE StmtExec(p, a.args \o WhereValues(attrs[i].Wheres))
        made(upd) ==
            IF upd.err # "" THEN [s EXCEPT !.err = upd.err]
            ELSE exec(Prepare(s, upd.stmt), Args(T, attrs[i].Row, TRUE))
    IN  IF i > Len(attrs) \/ s.err # "" THEN s
        ELSE UpdateAttrs(made(Update(T, WhereFields(attrs[i].Wheres))), T, attrs, i + 1)

\* Update[T](db, attrs...)
sqlhUpdate(s, T, attrs) ==
    LET begun(b) == IF b.err # "" THEN b ELSE EndTx(UpdateAttrs(b, T, attrs, 1))
    IN  begun(Begin(s))

\* the connection outside any transaction
BareConnection == "db"

\* the querier Set hands to ListRows
SetQuerier == "tx"

\* Set: the rows that match, read with a limit of 2
SetList(s, T, wheres) ==
    ListRows(s, SetQuerier, T, 0, <<>>, GetLimit, wheresToAttrs(wheres))

\* Set with a switch that updates whenever a row is found
SetWriteFound(s, T, row, wheres) ==
    LET write(stmt, a, more) ==
            IF stmt.err # "" THEN [s EXCEPT !.err = stmt.err]
            ELSE IF a.err # "" THEN [s EXCEPT !.err = a.err]
            ELSE Exec(s, "tx", stmt.stmt, a.args \o more)
    IN  IF s.err # "" THEN s
        ELSE IF Len(s.out) = 0 THEN write(Insert(T), Args(T, row, TRUE), <<>>)
        ELSE write(Update(T, WhereFields(wheres)), Args(T, row, TRUE), WhereValues(wheres))

\* Set: the switch on the number of rows found
SetWrite(s, T, row, wheres) ==
    LET write(stmt, a, more) ==
            IF stmt.err # "" THEN [s EXCEPT !.err = stmt.err]
            ELSE IF a.err # "" THEN [s EXCEPT !.err = a.err]
            ELSE Exec(s, "tx", stmt.stmt, a.args \o more)
    IN  IF s.err # "" THEN s
        ELSE CASE Len(s.out) = 0 -> write(Insert(T), Args(T, row, TRUE), <<>>)
               [] Len(s.out) = 1 ->
                     write(Update(T, WhereFields(wheres)), Args(T, row, TRUE),
                           WhereValues(wheres))
               [] OTHER -> [s EXCEPT !.err = "ErrMultipleRowsFound"]

\* Set[T](db, row, wheres...)
Set(s, T, row, wheres) ==
    LET begun(b) == IF b.err # "" THEN b ELSE EndTx(SetWrite(SetList(b, T, wheres), T, row, wheres))
    IN  begun(Begin(s))

\* Delete[T](db, wheres...)
sqlhDelete(s, T, wheres) ==
    LET prepared(p) == IF p.err # "" THEN p ELSE StmtExec(p, WhereValues(wheres))
        begun(b, del) == IF b.err # "" THEN b ELSE EndTx(prepared(Prepare(b, del.stmt)))
        made(del) == IF del.err # "" THEN [s EXCEPT !.err = del.err] ELSE begun(Begin(s), del)
    IN  made(Delete(T, WhereFields(wheres)))

---------------------------------------------------------------------------
(* Calls of package query: a record type T and a record value are chosen,  *)
(* and one call is made on them.                                           *)

\* contents of the sample records: field i holds scale * i, scale up to MaxScale
MaxScale == 2
\* where fragments and conditions of a call: up to MaxWheres
MaxWheres == 2

SeqsUpTo(S, n) == UNION {[1..k -> S] : k \in 0..n}

SampleRow(t, scale) ==
    [i \in 1..Len(FieldsOfType(t)) |-> Val(ValueKind(FieldsOfType(t)[i]), scale * i)]

NameEq == <<"n","a","m","e","=">>
IdEq == <<"i","d","=">>
DataIsNull == Chars("data IS NULL")
Fragments == {NameEq, IdEq, DataIsNull}

NoResult ==
    [op |-> "none", T2 |-> "", row2 |-> <<>>, stmt |-> <<>>, err |-> "", args |-> <<>>,
     wheres |-> <<>>, row |-> <<>>]
NoCall == [op |-> "none"]

\* no call of package sqlh is made
Idle ==
    /\ dbT = "TestTable" /\ database = EmptyDb(dbT) /\ last = NoCall /\ after = NoCall
    /\ sess = <<>> /\ lock = "" /\ pkgNumRows = numRows
IdleStays == UNCHANGED <<pkgNumRows, qT, qRow, dbT, database, last, after, sess, lock>>

InitQuery ==
    /\ qT \in {StructT(t) : t \in RecordTypes}
    /\ qRow \in {SampleRow(qT.elem, scale) : scale \in 0..MaxScale}
    /\ qRes = NoResult
    /\ Idle

\* Insert[T]() and Args(row, forWrite), as sqlh.Insert pairs them
QInsert ==
    /\ qRes.op = "none"
    /\ qRes' = [NoResult EXCEPT !.op = "Insert", !.stmt = Insert(qT).stmt,
                                !.err = Insert(qT).err, !.args = Args(qT, qRow, TRUE).args]
    /\ IdleStays

\* Update[T](wheres...) and Args(row, forWrite), as sqlh.Update pairs them
QUpdate ==
    /\ qRes.op = "none"
    /\ \E wheres \in SeqsUpTo(Fragments, MaxWheres) :
          qRes' = [NoResult EXCEPT !.op = "Update", !.wheres = wheres,
                                   !.stmt = Update(qT, wheres).stmt,
                                   !.err = Update(qT, wheres).err,
                                   !.args = Args(qT, qRow, TRUE).args]
    /\ IdleStays

\* Select[T](nil) and Args(row, forRead)
QSelect ==
    /\ qRes.op = "none"
    /\ qRes' = [NoResult EXCEPT !.op = "Select", !.stmt = Select(qT, NilAttr, numRows).stmt,
                                !.err = Select(qT, NilAttr, numRows).err,
                                !.args = Args(qT, qRow, FALSE).args]
    /\ IdleStays

\* Select[T] with Joins [MakeJoin[T2]], and the scan arguments QueryRange
\* builds for struct{*T; *T2}
QSelectJoin ==
    /\ qRes.op = "none"
    /\ \E t2 \in RecordTypes, scale \in 0..MaxScale :
          LET attr == [SelectAttr(<<>>, NoPaginator) EXCEPT
                          !.Alias = <<"t">>,
                          !.Joins = <<MakeJoin(StructT(t2),
                                               JoinAttr(<<"l","e","f","t">>, <<>>, <<"o">>,
                                                        Chars("t.id = o.id")))>>]
              comps == <<[T |-> qT, ptr |-> TRUE], [T |-> StructT(t2), ptr |-> TRUE]>>
          IN  qRes' = [NoResult EXCEPT !.op = "Join", !.T2 = t2,
                                       !.row2 = SampleRow(t2, scale),
                                       !.stmt = Select(qT, attr, numRows).stmt,
                                       !.err = Select(qT, attr, numRows).err,
                                       !.args = ScanArgs(comps, <<qRow, SampleRow(t2, scale)>>, 1)]
    /\ IdleStays

\* ArgsAppay(&r2, Args(row, forRead)) for a zero r2
QRoundTrip ==
    /\ qRes.op = "none"
    /\ LET res == ArgsAppay(qT, ZeroRow(qT), Args(qT, qRow, FALSE).args)
       IN  qRes' = [NoResult EXCEPT !.op = "ArgsAppay", !.err = res.err, !.row = res.row,
                                    !.args = Args(qT, qRow, FALSE).args]
    /\ IdleStays

\* Table[T]() and Args(row, forRead)
QTable ==
    /\ qRes.op = "none"
    /\ qRes' = [NoResult EXCEPT !.op = "Table", !.stmt = Table(qT).stmt,
                                !.err = Table(qT).err, !.args = Args(qT, qRow, FALSE).args]
    /\ IdleStays

NextQuery == QInsert \/ QUpdate \/ QSelect \/ QSelectJoin \/ QRoundTrip \/ QTable

SpecQuery == InitQuery /\ [][NextQuery]_vars

---------------------------------------------------------------------------
(* Properties of package query.                                            *)

\* the column a field is stored in: its db tag, else its lower-cased Go name
ColumnOf(field) == IF field.db = <<>> THEN ToLower(field.name) ELSE field.db

\* the value of a field as it travels in an argument list
Encoded(field, v) ==
    IF field.kind \in {"complex64", "complex128"} THEN GobEncode(v.v) ELSE v

\* column and arg are the column and the value of one and the same field of row
Denotes(t, row, column, arg) ==
    \E i \in 1..Len(FieldsOfType(t)) :
        ColumnOf(FieldsOfType(t)[i]) = column /\ Encoded(FieldsOfType(t)[i], row[i]) = arg

\* the columns a statement names: the list of an INSERT, the SET list of an
\* UPDATE, the select list of a SELECT
StmtColumns(stmt) ==
    IF HasPrefix(stmt, <<"I","N","S","E","R","T">>)
    THEN Split(Before(After(stmt, <<"(">>), <<")">>), <<",">>)
    ELSE IF HasPrefix(stmt, <<"U","P","D","A","T","E">>)
    THEN LET sets == Split(Before(After(stmt, <<" ","S","E","T"," ">>),
                                  <<" ","W","H","E","R","E"," ">>), <<",">>)
         IN  [k \in 1..Len(sets) |-> Before(sets[k], <<"=">>)]
    ELSE Split(Before(After(stmt, <<"S","E","L","E","C","T"," ">>),
                      <<" ","F","R","O","M"," ">>), <<","," ">>)

\* every field of the record holds a content of its own
Tagged(row) == \A i \in DOMAIN row : row[i].v # 0

\* C1: the k-th column of Insert[T] and the k-th element of Args(row, true), and
\* the k-th column of Select[T] and the k-th slot of Args(row, false), belong to
\* the same field, and the lists are equally long; for struct{*A; *B} the slots
\* of QueryRange follow the columns of Select[A] with Joins [MakeJoin[B]]
C1_ColumnOrderIsSlotOrder ==
    LET cols == StmtColumns(qRes.stmt)
    IN  /\ (qRes.op \in {"Insert", "Select"} /\ qRes.err = "") =>
              /\ Len(cols) = Len(qRes.args)
              /\ \A k \in 1..Len(cols) : Denotes(qT.elem, qRow, cols[k], qRes.args[k])
        /\ (qRes.op = "Join" /\ qRes.err = "") =>
              /\ Len(cols) = Len(qRes.args)
              /\ \A k \in 1..Len(cols) :
                    \/ /\ HasPrefix(cols[k], <<"t",".">>)
                       /\ Denotes(qT.elem, qRow, After(cols[k], <<".">>), qRes.args[k])
                    \/ /\ HasPrefix(cols[k], <<"o",".">>)
                       /\ Denotes(qRes.T2, qRes.row2, After(cols[k], <<".">>), qRes.args[k])

\* C1, where it holds: the test table of the repository, inserted and selected
C1_OnTestTable ==
    /\ qT.elem = "TestTable" /\ Tagged(qRow) /\ qRes.op \in {"Insert", "Select"}
    /\ C1_ColumnOrderIsSlotOrder

\* the scalar kinds ArgsAppay supports
SupportedKinds ==
    {"string", "bool", "float32", "float64", "bytes", "time", "complex64", "complex128"}
        \cup IntKinds \cup UintKinds
SupportedRecord(t) ==
    \A i \in 1..Len(FieldsOfType(t)) : ValueKind(FieldsOfType(t)[i]) \in SupportedKinds

\* a field that is neither db:"-" nor a placeholder
Included(field) == field.db # <<"-">> /\ field.db # <<"_">> /\ field.name # <<"_">>

\* C2: ArgsAppay(&r2, Args(r, false)) on a zero r2 returns nil and makes every
\* included field of r2 equal to the same field of r
C2_RoundTrip ==
    (qRes.op = "ArgsAppay" /\ SupportedRecord(qT.elem)) =>
        /\ qRes.err = ""
        /\ \A i \in 1..Len(qRow) :
              Included(FieldsOfType(qT.elem)[i]) => qRes.row[i] = qRow[i]

\* C2, where it holds: a record whose skipped field is declared last
C2_OnDashLast ==
    /\ qT.elem = "DashLast" /\ Tagged(qRow) /\ qRes.op = "ArgsAppay" /\ C2_RoundTrip

\* a db_key that spells autoincrement or auto_increment in any letter case
AutoKeyed(field) ==
    \/ Contains(ToLower(field.key), Chars("autoincrement"))
    \/ Contains(ToLower(field.key),
                Chars("auto_increment"))

\* C3: the value of an autoincrement field is not in Args(r, true), its column
\* is not named by Insert[T] or Update[T], and Args(r, true) is as long as the
\* column list of Insert[T]
C3_AutoIncrementExcluded ==
    (qRes.op \in {"Insert", "Update"} /\ qRes.err = "") =>
        LET cols == StmtColumns(qRes.stmt)
            flds == FieldsOfType(qT.elem)
        IN  /\ qRes.op = "Insert" => Len(qRes.args) = Len(cols)
            /\ \A i \in 1..Len(flds) :
                  AutoKeyed(flds[i]) =>
                      /\ \A k \in 1..Len(cols) : cols[k] # ColumnOf(flds[i])
                      /\ Tagged(qRow) =>
                            \A k \in 1..Len(qRes.args) : qRes.args[k] # qRow[i]

\* C3, where it holds: the autoincrement key of the sqlite test table
C3_OnTestTable ==
    /\ qT.elem = "TestTable" /\ Tagged(qRow) /\ qRes.op \in {"Insert", "Update"}
    /\ qRes.err = "" /\ C3_AutoIncrementExcluded

TableClauses(stmt) ==
    LET rest == After(stmt, <<" ","(">>)
    IN  Split(SubSeq(rest, 1, Len(rest) - 2), <<","," ">>)

\* the placeholder fields of record type t that carry key text
Placeholders(t) ==
    {i \in 1..Len(FieldsOfType(t)) :
        FieldsOfType(t)[i].name = <<"_">> /\ FieldsOfType(t)[i].key # <<>>}

\* C13: for a record type with a placeholder field (name _) that carries key
\* text, wherever it is declared, Table[T] emits the key text, trailing
\* spaces trimmed, as a clause of its own after all column definitions, and
\* the placeholder gives no column to Insert, Update and Select and no
\* element to Args
C13_Placeholder ==
    LET flds == FieldsOfType(qT.elem)
        clause(i) == TrimRight(flds[i].key, " ")
        parts == TableClauses(qRes.stmt)
        cols == StmtColumns(qRes.stmt)
    IN  (Placeholders(qT.elem) # {} /\ qRes.err = "") =>
            /\ qRes.op = "Table" =>
                  \A i \in Placeholders(qT.elem) :
                      \E k \in 1..Len(parts) :
                          /\ parts[k] = clause(i)
                          /\ \A j \in 1..Len(parts) :
                                (\A h \in Placeholders(qT.elem) : parts[j] # clause(h))
                                    => j < k
            /\ qRes.op \in {"Insert", "Update", "Select"} =>
                  \A k \in 1..Len(cols) :
                      cols[k] # <<"_">> /\ \A i \in Placeholders(qT.elem) : cols[k] # clause(i)
            /\ (qRes.op \in {"Insert", "Update", "Select", "Table"} /\ Tagged(qRow)) =>
                  \A i \in Placeholders(qT.elem), k \in 1..Len(qRes.args) :
                      qRes.args[k] # qRow[i]

\* C13, where it holds: the MySQL test table, whose placeholder is declared
\* last, with its CREATE TABLE statement
C13_OnTestMySQLTable ==
    /\ qT.elem = "TestMySQLTable" /\ qRes.op = "Table" /\ Tagged(qRow)
    /\ qRes.stmt = Chars("CREATE TABLE IF NOT EXISTS testmysqltable (")
                    \o Chars("id integer not null primary key AUTO_INCREMENT, ")
                    \o Chars("name text not null, data blob, unique KEY(name(255)));")
    /\ Len(qRes.args) = 3

---------------------------------------------------------------------------
(* Calls of package sqlh by one caller.  The table of record type dbT is   *)
(* filled by Insert; then one call is made and what it returned is kept in *)
(* last, and a Get that follows it in after.                               *)

\* the names of the sample records are 1..MaxName, their data 0..MaxData
\* (data 0 is a nil byte sequence)
MaxName == 2
MaxData == 1
\* rows of one Insert and attributes of one Update: up to MaxBatch
MaxBatch == 2
\* the driver call that fails: none, or one of the first MaxFail
MaxFail == 4
\* the table is filled with up to MaxId rows before the call
MaxId == 2

RowOf(T, name, data) ==
    [ZeroRow(T) EXCEPT ![2] = Val("string", name), ![3] = Val("bytes", data)]
SampleRows(T) == {RowOf(T, n, d) : n \in 1..MaxName, d \in 0..MaxData}

SampleWheres ==
    {Where(NameEq, Val("string", n)) : n \in 1..MaxName}
        \cup {Where(IdEq, Val("int", 1)), Where(DataIsNull, Nil)}

\* UpdateAttr values: a record with data, and at most one condition
SampleAttrs(T) ==
    {[Row |-> RowOf(T, n, MaxData), Wheres |-> ws] :
        n \in 1..MaxName, ws \in SeqsUpTo(SampleWheres, 1)}

InitExec ==
    /\ dbT \in DbTypes /\ database = EmptyDb(dbT) /\ last = NoCall /\ after = NoCall
    /\ qT = StructT(dbT) /\ qRow = <<>> /\ qRes = NoResult
    /\ sess = <<>> /\ lock = "" /\ pkgNumRows = numRows

\* the call returned: s is the caller's session after it
Returned(op, rows, wheres, fail, s) ==
    /\ last' = [op |-> op, rows |-> rows, wheres |-> wheres, fail |-> fail,
                before |-> database, err |-> s.err, got |-> s.row, log |-> s.log]
    /\ database' = s.db
    /\ UNCHANGED <<pkgNumRows, qT, qRow, qRes, dbT, after, sess, lock>>

\* a row is put into the table by a successful Insert
Populate ==
    /\ last.op = "none" /\ database.seq < MaxId
    /\ \E r \in SampleRows(qT) :
          LET done(s) == s.err = "" /\ database' = s.db
          IN  done(sqlhInsert(NewSession(dbT, database, 0), qT, <<r>>))
    /\ UNCHANGED <<pkgNumRows, qT, qRow, qRes, dbT, last, after, sess, lock>>

CallInsert ==
    /\ last.op = "none"
    /\ \E rows \in SeqsUpTo(SampleRows(qT), MaxBatch), fail \in 0..MaxFail :
          Returned("Insert", rows, <<>>, fail,
                   sqlhInsert(NewSession(dbT, database, fail), qT, rows))

CallUpdate ==
    /\ last.op = "none"
    /\ \E attrs \in SeqsUpTo(SampleAttrs(qT), MaxBatch), fail \in 0..MaxFail :
          Returned("Update", attrs, <<>>, fail,
                   sqlhUpdate(NewSession(dbT, database, fail), qT, attrs))

CallSet ==
    /\ last.op = "none"
    /\ \E row \in SampleRows(qT), wheres \in SeqsUpTo(SampleWheres, MaxWheres) :
          Returned("Set", <<row>>, wheres, 0,
                   Set(NewSession(dbT, database, 0), qT, row, wheres))

CallGet ==
    /\ last.op = "none"
    /\ \E wheres \in SeqsUpTo(SampleWheres, MaxWheres) :
          Returned("Get", <<>>, wheres, 0,
                   Get(NewSession(dbT, database, 0), "db", qT, wheres))

CallDelete ==
    /\ last.op = "none"
    /\ \E wheres \in SeqsUpTo(SampleWheres, MaxWheres) :
          Returned("Delete", <<>>, wheres, 0,
                   sqlhDelete(NewSession(dbT, database, 0), qT, wheres))

\* the Get that follows: s is the caller's session after it
Followed(wheres, s) ==
    /\ after' = [op |-> "Get", wheres |-> wheres, err |-> s.err, got |-> s.row]
    /\ UNCHANGED <<pkgNumRows, qT, qRow, qRes, dbT, database, last, sess, lock>>

\* a Get after the Insert of one record
GetInserted ==
    /\ last.op = "Insert" /\ last.err = "" /\ Len(last.rows) = 1 /\ after.op = "none"
    /\ \E w \in SampleWheres :
          Followed(<<w>>, Get(NewSession(dbT, database, 0), "db", qT, <<w>>))

\* a Get after a Delete, with the conditions of the Delete
GetDeleted ==
    /\ last.op = "Delete" /\ last.err = "" /\ after.op = "none"
    /\ Followed(last.wheres,
                Get(NewSession(dbT, database, 0), "db", qT, last.wheres))

NextExec ==
    \/ Populate \/ CallInsert \/ CallUpdate \/ CallSet \/ CallGet \/ CallDelete
    \/ GetInserted \/ GetDeleted

SpecExec == InitExec /\ [][NextExec]_vars

---------------------------------------------------------------------------
(* Properties of package sqlh, one caller.                                 *)

\* the field of record type T that column c stores, and the stored value of
\* that field of record rec
FieldIndex(T, c) == CHOOSE i \in 1..Len(T.type.fields) : ColumnOf(T.type.fields[i]) = c
Stored(T, rec, c) == StoreVal(rec[FieldIndex(T, c)])

\* the columns of the autoincrement fields of T
AutoColumns(T) ==
    {ColumnOf(T.type.fields[i]) : i \in {j \in 1..Len(T.type.fields) : AutoKeyed(T.type.fields[j])}}

\* row r of the table holds the values of record rec, the autoincrement apart
SameContent(T, r, rec) == \A c \in DOMAIN r \ AutoColumns(T) : r[c] = Stored(T, rec, c)

\* row r satisfies condition w; the rows that satisfy every condition
Satisfies(r, w) ==
    IF w.Value = Nil THEN r[Before(ToLower(w.Field), Chars(" is null"))].k = "nil"
    ELSE r[Before(w.Field, <<"=">>)] = StoreVal(w.Value)
Matching(rows, wheres) == {r \in rows : \A i \in 1..Len(wheres) : Satisfies(r, wheres[i])}

\* the table after the UPDATE of each attribute in turn: the rows that satisfy
\* the attribute's conditions take the values of its record in the columns the
\* statement writes
WrittenBy(T, r, rec) ==
    [c \in DOMAIN r |->
        IF \E k \in 1..Len(fields(T, FALSE)) : fields(T, FALSE)[k] = c
        THEN Stored(T, rec, c) ELSE r[c]]
RECURSIVE UpdatedBy(_, _, _, _)
UpdatedBy(T, rows, attrs, i) ==
    IF i > Len(attrs) THEN rows
    ELSE UpdatedBy(T, {IF Matching({r}, attrs[i].Wheres) # {}
                       THEN WrittenBy(T, r, attrs[i].Row) ELSE r : r \in rows},
                   attrs, i + 1)

\* C5: an Insert or Update that returns an error leaves the table as it was;
\* one that returns nil leaves the changes of all its rows or attributes
C5_AllOrNothing ==
    last.op \in {"Insert", "Update"} =>
        IF last.err # "" THEN database.rows = last.before.rows
        ELSE IF last.op = "Insert"
        THEN /\ last.before.rows \subseteq database.rows
             /\ Cardinality(database.rows \ last.before.rows) = Len(last.rows)
             /\ \A k \in 1..Len(last.rows) :
                   Cardinality({r \in database.rows \ last.before.rows :
                                   SameContent(qT, r, last.rows[k])})
                       = Cardinality({j \in 1..Len(last.rows) : last.rows[j] = last.rows[k]})
        ELSE database.rows = UpdatedBy(qT, last.before.rows, last.rows, 1)

\* C5: an Update whose second attribute has no Wheres failed after its first
\* attribute had matched a row
C5_SecondAttrRefused ==
    /\ last.op = "Update" /\ Len(last.rows) = 2 /\ last.fail = 0
    /\ last.rows[1].Wheres # <<>> /\ last.rows[2].Wheres = <<>>
    /\ \E r \in Matching(last.before.rows, last.rows[1].Wheres) :
          ~SameContent(qT, r, last.rows[1].Row)
    /\ last.err = "ErrWhereClauseRequiredForUpdate"

\* the write of record rec next to rows breaks no unique key
Admits(T, rows, rec) ==
    \A c \in database.sch.unique \ AutoColumns(T) :
        \A r \in rows : r[c] # Stored(T, rec, c)

\* C6: Set with conditions inserts one row built from the record when no row
\* matches, updates the non-autoincrement columns of the row when one matches
\* (as many rows as before), and returns ErrMultipleRowsFound and changes
\* nothing when several match
C6_SetUpserts ==
    (last.op = "Set" /\ Len(last.wheres) >= 1) =>
        LET hit == Matching(last.before.rows, last.wheres)
            kept == last.before.rows \ hit
            rec == last.rows[1]
        IN  CASE hit = {} /\ Admits(qT, last.before.rows, rec) ->
                    /\ last.err = ""
                    /\ last.before.rows \subseteq database.rows
                    /\ Cardinality(database.rows \ last.before.rows) = 1
                    /\ \A r \in database.rows \ last.before.rows : SameContent(qT, r, rec)
              [] Cardinality(hit) = 1 /\ Admits(qT, kept, rec) ->
                    /\ last.err = ""
                    /\ Cardinality(database.rows) = Cardinality(last.before.rows)
                    /\ kept \subseteq database.rows
                    /\ \A r \in database.rows \ kept : SameContent(qT, r, rec)
              [] Cardinality(hit) >= 2 ->
                    last.err = "ErrMultipleRowsFound" /\ database.rows = last.before.rows
              [] OTHER -> TRUE

\* C6, where it holds: Set updated the one row its condition on name matched
C6_UpdatedByName ==
    /\ last.op = "Set" /\ Len(last.wheres) = 1 /\ last.wheres[1].Value # Nil
    /\ Cardinality(Matching(last.before.rows, last.wheres)) = 1
    /\ last.err = "" /\ database.rows # last.before.rows /\ C6_SetUpserts

\* C27: Set with an empty where list inserts the row when the table is empty,
\* returns ErrWhereClauseRequiredForUpdate and changes nothing when the table
\* holds one row, returns ErrMultipleRowsFound and changes nothing when it
\* holds two or more; no row of the table is ever updated
C27_SetWithoutWhere ==
    (last.op = "Set" /\ last.wheres = <<>>) =>
        LET n == Cardinality(last.before.rows)
            rec == last.rows[1]
        IN  /\ last.before.rows \subseteq database.rows
            /\ CASE n = 0 ->
                       /\ last.err = ""
                       /\ Cardinality(database.rows) = 1
                       /\ \A r \in database.rows : SameContent(qT, r, rec)
                  [] n = 1 ->
                       /\ last.err = "ErrWhereClauseRequiredForUpdate"
                       /\ database.rows = last.before.rows
                  [] OTHER ->
                       /\ last.err = "ErrMultipleRowsFound"
                       /\ database.rows = last.before.rows

\* C27: Set without conditions was refused on a table of one row, which is
\* still there as it was
C27_RefusedOnOneRow ==
    /\ last.op = "Set" /\ last.wheres = <<>>
    /\ Cardinality(last.before.rows) = 1
    /\ last.err = "ErrWhereClauseRequiredForUpdate"
    /\ last.log[Len(last.log)].call = "Rollback"
    /\ database.rows = last.before.rows

\* C30: Delete without conditions builds a DELETE statement with no WHERE
\* clause, removes every row of the table in one committed transaction and
\* returns nil; it is never refused for the missing conditions
C30_UnscopedDelete ==
    (last.op = "Delete" /\ last.wheres = <<>>) =>
        /\ Delete(qT, <<>>).err = ""
        /\ Delete(qT, <<>>).stmt = Chars("DELETE from ") \o Name(qT) \o <<";">>
        /\ last.err = ""
        /\ database.rows = {}
        /\ [i \in 1..Len(last.log) |-> last.log[i].call]
              = <<"Begin", "Prepare", "Exec", "Commit">>
        /\ \A i \in 2..Len(last.log) : last.log[i].on = "tx"

\* C30: a Delete without conditions has emptied a table of several rows
C30_TableEmptied ==
    /\ last.op = "Delete" /\ last.wheres = <<>> /\ last.err = ""
    /\ Cardinality(last.before.rows) > 1 /\ database.rows = {}

RecordSatisfies(T, rec, wheres) ==
    Matching({[c \in database.sch.cols |-> Stored(T, rec, c)]}, wheres) # {}

\* a Get followed the Insert of one record that satisfies the conditions of
\* the Get, into a table where no row satisfied them
InsertedThenGot ==
    /\ last.op = "Insert" /\ last.err = "" /\ Len(last.rows) = 1 /\ after.op = "Get"
    /\ Matching(last.before.rows, after.wheres) = {}
    /\ RecordSatisfies(qT, last.rows[1], after.wheres)

\* C9: that Get returns one record, with the non-autoincrement fields of the
\* inserted record and, in the autoincrement field, the identifier the
\* database assigned instead of the value the record carried
C9_InsertThenGet ==
    InsertedThenGot =>
        /\ after.err = "" /\ after.got # <<>>
        /\ \A i \in 1..Len(qT.type.fields) :
              IF AutoKeyed(qT.type.fields[i])
              THEN /\ after.got[i].v # last.rows[1][i].v
                   /\ \E r \in database.rows \ last.before.rows :
                         r[ColumnOf(qT.type.fields[i])].v = after.got[i].v
              ELSE Included(qT.type.fields[i]) => after.got[i] = last.rows[1][i]

\* C9: the record was inserted next to another row, in the mysql table
C9_SecondRowOfMySQL ==
    InsertedThenGot /\ dbT = "TestMySQLTable" /\ last.before.rows # {}

---------------------------------------------------------------------------
(* Concurrent calls of Set.  Each caller runs Set on its own connection,   *)
(* one database round trip at a time.  The database serialises             *)
(* transactions: the first statement of a transaction takes the database   *)
(* (lock) and the transaction keeps it until it ends; a statement on a     *)
(* bare connection reads what is committed and takes nothing.              *)

Callers == {"a", "b"}

InitSet ==
    /\ dbT \in DbTypes /\ database = EmptyDb(dbT) /\ last = NoCall /\ after = NoCall
    /\ qT = StructT(dbT) /\ qRow = <<>> /\ qRes = NoResult
    /\ sess = [p \in Callers |-> [pc |-> "idle"]] /\ lock = "" /\ pkgNumRows = numRows

\* caller p made a round trip: s is its session after it
Stepped(p, pc, s) ==
    /\ sess' = [sess EXCEPT ![p].pc = pc, ![p].s = s]
    /\ database' = s.db
    /\ lock' = IF s.held THEN p ELSE IF lock = p THEN "" ELSE lock
    /\ UNCHANGED <<pkgNumRows, qT, qRow, qRes, dbT, last, after>>

\* the session of caller p, on the database as it is now
Session(p) == [sess[p].s EXCEPT !.db = database]

\* rows are put into the table before any caller starts
SetPopulate == (\A p \in Callers : sess[p].pc = "idle") /\ Populate

\* Set: db.Begin; the callers that run together have the same conditions
SetBegin(p) ==
    /\ sess[p].pc = "idle"
    /\ \E row \in SampleRows(qT), w \in SampleWheres :
          /\ \A q \in Callers : sess[q].pc # "idle" => sess[q].wheres = <<w>>
          /\ sess' = [sess EXCEPT ![p] = [pc |-> "begun", row |-> row, wheres |-> <<w>>,
                                          before |-> database, found |-> 0,
                                          s |-> Begin(NewSession(dbT, database, 0))]]
    /\ UNCHANGED <<pkgNumRows, qT, qRow, qRes, dbT, database, last, after, lock>>

\* Set: the rows that match are read
SetSelect(p) ==
    /\ sess[p].pc = "begun"
    /\ SetQuerier = "tx" => lock \in {"", p}
    /\ Stepped(p, "listed", SetList(Session(p), qT, sess[p].wheres))

\* Set: the INSERT or the UPDATE is executed, or neither
SetExec(p) ==
    /\ sess[p].pc = "listed"
    /\ lock \in {"", p}
    /\ LET wrote(s) ==
              /\ sess' = [sess EXCEPT ![p].pc = "written", ![p].s = s,
                                      ![p].found = Len(sess[p].s.out)]
              /\ database' = s.db
              /\ lock' = IF s.held THEN p ELSE IF lock = p THEN "" ELSE lock
       IN  wrote(SetWrite(Session(p), qT, sess[p].row, sess[p].wheres))
    /\ UNCHANGED <<pkgNumRows, qT, qRow, qRes, dbT, last, after>>

\* Set: the deferred Commit or Rollback
SetEnd(p) ==
    /\ sess[p].pc = "written"
    /\ Stepped(p, "done", EndTx(Session(p)))

NextSet ==
    \/ SetPopulate
    \/ \E p \in Callers : SetBegin(p) \/ SetSelect(p) \/ SetExec(p) \/ SetEnd(p)

SpecSet == InitSet /\ [][NextSet]_vars

\* the statements of a session are all sent on its transaction, after Begin
\* and before Commit or Rollback
OnOneTransaction(log) ==
    \A k \in 1..Len(log) :
        log[k].call \in {"Query", "Exec", "Prepare"} =>
            /\ log[k].on = "tx"
            /\ log[1].call = "Begin"
            /\ \A j \in 1..k : log[j].call \notin {"Commit", "Rollback"}

\* C7: the SELECT and the INSERT or UPDATE of Set are issued on one
\* transaction between Begin and Commit or Rollback, and two concurrent Sets
\* with the same conditions, on a table where no row matched, do not both
\* insert and leave two matching rows
C7_SetAtomic ==
    /\ \A p \in Callers : sess[p].pc # "idle" => OnOneTransaction(sess[p].s.log)
    /\ \A p, q \in Callers :
          (/\ p # q /\ sess[p].pc = "done" /\ sess[q].pc = "done"
           /\ sess[p].wheres = sess[q].wheres
           /\ Matching(sess[p].before.rows, sess[p].wheres) = {}
           /\ Matching(sess[q].before.rows, sess[q].wheres) = {})
          => ~(/\ sess[p].found = 0 /\ sess[p].s.err = ""
               /\ sess[q].found = 0 /\ sess[q].s.err = ""
               /\ Cardinality(Matching(database.rows, sess[p].wheres)) >= 2)

\* C7: two Sets with the same condition, met by both records and by no row
\* of the table, ran together: one inserted, the other updated, one row matches
C7_InsertedAndUpdated ==
    /\ sess["a"].pc = "done" /\ sess["b"].pc = "done"
    /\ Matching(sess["a"].before.rows, sess["a"].wheres) = {}
    /\ Matching(sess["b"].before.rows, sess["b"].wheres) = {}
    /\ sess["b"].before = sess["a"].before /\ sess["a"].before.rows # {}
    /\ RecordSatisfies(qT, sess["a"].row, sess["a"].wheres)
    /\ RecordSatisfies(qT, sess["b"].row, sess["b"].wheres)
    /\ sess["a"].s.err = "" /\ sess["b"].s.err = ""
    /\ {sess["a"].found, sess["b"].found} = {0, 1}
    /\ Cardinality(Matching(database.rows, sess["a"].wheres)) = 1

---------------------------------------------------------------------------
(* Calls of the statement builders: a type argument of any kind is chosen, *)
(* a record type, a pointer to one or a type that is no record, and one    *)
(* builder is called on it.                                                *)

\* Offset and Limit of a Paginator: -1 up to MaxOffset and MaxLimit
MaxOffset == 5
MaxLimit == 10

BuildTypes ==
    {StructT(t) : t \in RecordTypes} \cup {PtrT(t) : t \in RecordTypes}
    \cup {ScalarT("int", FALSE), ScalarT("int", TRUE), ScalarT("string", FALSE)}

IdGt == <<"i","d",">","?">>
NameIs == <<"n","a","m","e","=","?">>

\* the joins of a SelectAttr: one made by MakeJoin, one on a sub-select
BuildJoins ==
    LET made == MakeJoin(StructT("TestTable2"),
                         JoinAttr(<<"l","e","f","t">>, <<>>, <<"o">>, Chars("t.id = o.id")))
        sub == [JoinAttr(<<>>, <<>>, <<"p">>, Chars("p.id = t.id")) EXCEPT
                   !.Select = Chars("SELECT id FROM other"), !.Fields = <<Chars("p.id")>>]
    IN  {<<>>, <<made>>, <<sub, made>>}

\* the specifications Select is called with: every clause present or absent
BuildAttrs ==
    {[SelectAttr(wheres, page) EXCEPT
         !.WheresJoinOr = or, !.Distinct = distinct, !.Alias = alias, !.Name = name,
         !.GroupBy = by[1], !.OrderBy = by[2], !.Joins = joins] :
        wheres \in SeqsUpTo({IdGt, NameIs}, MaxWheres), page \in {NoPaginator, Paginator(1, 1)},
        or \in BOOLEAN, distinct \in BOOLEAN, alias \in {<<>>, <<"t">>},
        name \in {<<>>, <<"o","t","h","e","r">>},
        by \in {<<>>, <<"n","a","m","e">>} \X {<<>>, Chars("id DESC")},
        joins \in BuildJoins} \cup {NilAttr}

\* the specifications Select is called with for its limit clause
PageAttrs ==
    {SelectAttr(wheres, Paginator(offset, limit)) :
        wheres \in {<<>>, <<NameIs>>}, offset \in -1..MaxOffset, limit \in -1..MaxLimit}

InitBuild == qT \in BuildTypes /\ qRow = <<>> /\ qRes = NoResult /\ Idle

\* the builder op was called with these arguments and returned made
Built(op, wheres, attr, n, made) ==
    /\ qRes' = [op |-> op, wheres |-> wheres, attr |-> attr, n |-> n,
                stmt |-> made.stmt, err |-> made.err]
    /\ IdleStays

BTable == qRes.op = "none" /\ Built("Table", <<>>, NilAttr, numRows, Table(qT))
BInsert == qRes.op = "none" /\ Built("Insert", <<>>, NilAttr, numRows, Insert(qT))
BUpdate ==
    /\ qRes.op = "none"
    /\ \E wheres \in SeqsUpTo(Fragments, MaxWheres) :
          Built("Update", wheres, NilAttr, numRows, Update(qT, wheres))
BDelete ==
    /\ qRes.op = "none"
    /\ \E wheres \in SeqsUpTo(Fragments, MaxWheres) :
          Built("Delete", wheres, NilAttr, numRows, Delete(qT, wheres))
\* Select[T](attr); on a pointer type with the plain specifications only
BSelect ==
    /\ qRes.op = "none"
    /\ \E attr \in BuildAttrs :
          /\ attr.WheresJoinOr => Len(attr.Wheres) > 1
          /\ qT.kind # "struct" => attr.Joins = <<>> /\ attr.GroupBy = <<>> /\ ~attr.Distinct
          /\ Built("Select", <<>>, attr, numRows, Select(qT, attr, numRows))
\* Select after SetNumRows(n), or with the default number of rows
BSelectPage ==
    /\ qRes.op = "none"
    /\ \E attr \in PageAttrs, n \in {numRows, 3} :
          Built("Select", <<>>, attr, n, Select(qT, attr, n))
BCount ==
    /\ qRes.op = "none"
    /\ \E attr \in BuildAttrs :
          /\ attr.Joins = <<>> /\ attr.GroupBy = <<>> /\ ~attr.Distinct /\ attr.Name = <<>>
          /\ attr.WheresJoinOr => Len(attr.Wheres) > 1
          /\ Built("Count", <<>>, attr, numRows, Count(qT, attr))

\* the list attributes of ListRows, List and ListRange: a plain string, bool
\* and *string, the values of the types Alias, Distinct and Name, a Where and
\* a query.Join
ListAttrForms ==
    {[type |-> "string", v |-> <<"t">>], [type |-> "bool", v |-> TRUE],
     [type |-> "*string", v |-> <<"o","t","h","e","r">>],
     [type |-> "Alias", v |-> <<"t">>], [type |-> "Distinct", v |-> TRUE],
     [type |-> "Name", v |-> <<"o","t","h","e","r">>],
     [type |-> "Where", v |-> Where(<<"i","d",">">>, Val("int", 1))],
     [type |-> "Join",
      v |-> JoinAttr(<<>>, Chars("TestTable2"), <<"o">>, Chars("t.id = o.id"))]}

\* ListRows[TestTable](db, 0, "name ASC", 100, listAttrs...): its statement
BList ==
    /\ qRes.op = "none" /\ qT = StructT("TestTable")
    /\ \E listAttrs \in SeqsUpTo(ListAttrForms, 2) :
          Built("List", <<>>, listAttrs, numRows,
                listStatement(qT, 0, Chars("name ASC"), 100, listAttrs))

NextBuild ==
    BTable \/ BInsert \/ BUpdate \/ BDelete \/ BSelect \/ BSelectPage \/ BCount \/ BList

SpecBuild == InitBuild /\ [][NextBuild]_vars

---------------------------------------------------------------------------
(* Properties of the statement builders.                                   *)

BuilderOps == {"Table", "Insert", "Update", "Select", "Count", "Delete"}

\* T is a record type or a pointer to a record type
IsRecordArg(T) == T.kind \in {"struct", "ptr"} /\ T.elem \in RecordTypes

\* what the builder that was called returns for type argument T
Rebuilt(T) ==
    CASE qRes.op = "Table" -> Table(T)
      [] qRes.op = "Insert" -> Insert(T)
      [] qRes.op = "Update" -> Update(T, qRes.wheres)
      [] qRes.op = "Select" -> Select(T, qRes.attr, qRes.n)
      [] qRes.op = "Count" -> Count(T, qRes.attr)
      [] qRes.op = "Delete" -> Delete(T, qRes.wheres)

\* C11: every builder returns ErrTypeIsNotStruct and an empty statement when
\* T is neither a record type nor a pointer to one, and for a pointer to a
\* record type it returns, without panicking, what it returns for the record
\* type itself
C11_TypeArgument ==
    qRes.op \in BuilderOps =>
        /\ ~IsRecordArg(qT) => qRes.err = "ErrTypeIsNotStruct" /\ qRes.stmt = <<>>
        /\ IsRecordArg(qT) /\ qT.kind = "ptr" =>
              /\ qRes.err # "panic"
              /\ qRes.stmt = Rebuilt(StructT(qT.elem)).stmt
              /\ qRes.err = Rebuilt(StructT(qT.elem)).err

\* C11: Insert[*TestTable] returned the statement of Insert[TestTable]
C11_InsertOnPointer ==
    /\ qRes.op = "Insert" /\ qT = PtrT("TestTable") /\ qRes.err = ""
    /\ qRes.stmt = Chars("INSERT INTO testtable(name,data) VALUES(?,?);")

\* a field that is a nested record (or a pointer to one), not a timestamp
NestedRecord(field) ==
    \/ field.kind = "struct" /\ field.elem # "Time"
    \/ field.kind = "ptr" /\ IsStructType(field.elem)

\* the db_table_name of the first field of flds, from field i on, that has one
RECURSIVE FirstTableName(_, _)
FirstTableName(flds, i) ==
    IF i > Len(flds) THEN <<>>
    ELSE IF flds[i].tbl # <<>> THEN flds[i].tbl
    ELSE FirstTableName(flds, i + 1)

\* the table name of a record type: that of its first field's type when the
\* first field is a nested record, else the first db_table_name annotation,
\* else the lower-cased type name
RECURSIVE TableNameOf(_)
TableNameOf(type) ==
    IF Len(type.fields) > 0 /\ NestedRecord(type.fields[1])
    THEN TableNameOf(Types[type.fields[1].elem])
    ELSE IF FirstTableName(type.fields, 1) # <<>> THEN FirstTableName(type.fields, 1)
    ELSE ToLower(type.name)

\* the table an INSERT statement names
InsertTable(stmt) == Before(After(stmt, Chars("INSERT INTO ")), <<"(">>)

\* C14: Name[T] is the db_table_name annotation of the first field that has
\* one, else the lower-cased type name, for a type of column-typed fields,
\* a timestamp possibly being the first; it is resolved on the type of the
\* first field only when the first field is a nested record or a pointer to one
C14_TableName ==
    (qRes.op = "Insert" /\ qRes.err = "" /\ IsRecordArg(qT)) =>
        InsertTable(qRes.stmt) = TableNameOf(qT.type)

\* C14, where it holds: the annotation of a later field names the table
C14_Annotated ==
    /\ qRes.op = "Insert" /\ qRes.err = "" /\ qT = StructT("SomeTable")
    /\ qT.type.fields[1].tbl = <<>>
    /\ InsertTable(qRes.stmt) = Chars("some_table")

\* the fields the joins contribute, in the order the joins are declared
RECURSIVE FieldsOfJoins(_, _)
FieldsOfJoins(joins, i) ==
    IF i > Len(joins) THEN <<>> ELSE joins[i].Fields \o FieldsOfJoins(joins, i + 1)

\* text when the condition holds, else nothing
When(cond, text) == IF cond THEN text ELSE <<>>

\* C15: Select[T](attr) is SELECT, DISTINCT when set, the own columns of T
\* with the autoincrement columns, each prefixed by the alias when one is
\* set, then the fields of the joins in the order of the joins, joined by
\* ", ", then FROM and the table with the alias, the joins, WHERE with the
\* fragments joined by AND, or by OR when WheresJoinOr is set, GROUP BY,
\* ORDER BY, the limit clause and ";", each clause absent when its attribute
\* is empty
C15_SelectComposition ==
    (qRes.op = "Select" /\ qRes.err = "" /\ IsRecordArg(qT)) =>
        LET attr == qRes.attr
            own == fields(qT, TRUE)
            table == IF ~attr.nil /\ attr.Name # <<>> THEN attr.Name ELSE Name(qT)
            cols == IF attr.nil THEN own
                    ELSE [k \in 1..Len(own) |-> When(attr.Alias # <<>>, attr.Alias \o <<".">>)
                                                \o own[k]]
                         \o FieldsOfJoins(attr.Joins, 1)
            tail == IF attr.nil THEN <<>>
                    ELSE When(attr.Alias # <<>>, <<" ">> \o attr.Alias)
                         \o SelectJoins(attr.Joins)
                         \o When(attr.Wheres # <<>>,
                                 Chars(" WHERE ")
                                 \o Join(attr.Wheres, IF attr.WheresJoinOr THEN Chars(" OR ")
                                                      ELSE Chars(" AND ")))
                         \o When(attr.GroupBy # <<>>, Chars(" GROUP BY ") \o attr.GroupBy)
                         \o When(attr.OrderBy # <<>>, Chars(" ORDER BY ") \o attr.OrderBy)
                         \o SelectLimit(attr.Paginator, qRes.n)
        IN  qRes.stmt = Chars("SELECT ") \o When(~attr.nil /\ attr.Distinct, Chars("DISTINCT "))
                        \o Join(cols, <<",", " ">>) \o Chars(" FROM ") \o table \o tail
                        \o <<";">>

\* C15: a Select of the test table with every clause present
C15_EveryClause ==
    /\ qRes.op = "Select" /\ qT = StructT("TestTable") /\ qRes.err = ""
    /\ qRes.attr.Distinct /\ qRes.attr.WheresJoinOr /\ Len(qRes.attr.Joins) = 2
    /\ qRes.stmt =
          Chars("SELECT DISTINCT t.id, t.name, t.data, p.id, o.id, o.value FROM testtable t")
          \o Chars(" join (SELECT id FROM other) p on p.id = t.id")
          \o Chars(" left join testtable2 o on t.id = o.id")
          \o Chars(" WHERE id>? OR name=? GROUP BY name ORDER BY id DESC LIMIT 1 OFFSET 1;")

\* strings.HasSuffix
EndsWith(s, suffix) ==
    Len(s) >= Len(suffix) /\ SubSeq(s, Len(s) - Len(suffix) + 1, Len(s)) = suffix

C17_LimitZeroIsNoLimit ==
    (qRes.op = "Select" /\ qRes.err = "" /\ ~qRes.attr.nil
        /\ qRes.attr.Paginator.set /\ qRes.attr.Paginator.Limit = 0) =>
        ~Contains(qRes.stmt, Chars(" LIMIT "))

\* C17, where it holds: Limit 0 and Offset 0 select all rows
C17_AllRows ==
    /\ qRes.op = "Select" /\ qRes.err = "" /\ qT = StructT("TestTable")
    /\ qRes.attr = SelectAttr(<<NameIs>>, Paginator(0, 0))
    /\ qRes.stmt = Chars("SELECT id, name, data FROM testtable WHERE name=?;")

\* the WHERE predicate of a statement: what follows its WHERE, up to the ;
Predicate(stmt) ==
    IF Contains(stmt, Chars(" WHERE ")) THEN Before(After(stmt, Chars(" WHERE ")), <<";">>)
    ELSE <<>>

\* the Count statement of the template, for a table and a specification
CountTemplate(table, attr) ==
    Chars("SELECT count(*) FROM ") \o table
    \o When(~attr.nil /\ attr.Wheres # <<>>,
            Chars(" WHERE ")
            \o Join(attr.Wheres, IF attr.WheresJoinOr THEN Chars(" OR ") ELSE Chars(" AND ")))
    \o <<";">>

\* C18: Count[T](attr) is SELECT count(*) FROM and the table, then WHERE and
\* the fragments joined by AND, or by OR when WheresJoinOr is set, when there
\* are fragments, then ";", in the letter case of the template; its predicate
\* is the one Select[T](attr) emits
C18_CountTemplate ==
    (qRes.op = "Count" /\ qRes.err = "" /\ IsRecordArg(qT)) =>
        /\ qRes.stmt = CountTemplate(Name(qT), qRes.attr)
        /\ Predicate(qRes.stmt)
              = Predicate(Select(qT, [qRes.attr EXCEPT !.Paginator = NoPaginator,
                                                       !.OrderBy = <<>>], qRes.n).stmt)

\* C18: a Count with two fragments joined by AND has the words of the
\* template, in another letter case
C18_TwoFragments ==
    /\ qRes.op = "Count" /\ qRes.err = "" /\ qT = StructT("TestTable")
    /\ Len(qRes.attr.Wheres) = 2 /\ ~qRes.attr.WheresJoinOr
    /\ qRes.stmt # CountTemplate(Name(qT), qRes.attr)
    /\ ToLower(qRes.stmt) = ToLower(CountTemplate(Name(qT), qRes.attr))

---------------------------------------------------------------------------
(* Calls of the marshaller with any argument: a record, a pointer to a     *)
(* record, a scalar, a pointer to a scalar or nil; and calls of ArgsAppay  *)
(* with slots the driver left nil or filled with a value of another type.  *)

ArgForms == {"value", "ptr", "scalar", "ptrscalar", "nil"}

InitArgs ==
    /\ qT \in {StructT(t) : t \in RecordTypes}
    /\ qRow \in {SampleRow(qT.elem, scale) : scale \in 0..MaxScale}
    /\ qRes = NoResult
    /\ Idle

\* Args(row, forWrite)
AArgs ==
    /\ qRes.op = "none"
    /\ \E form \in ArgForms, forWrite \in BOOLEAN :
          LET made(r) == qRes' = [op |-> "Args", form |-> form, forWrite |-> forWrite,
                                  args |-> r.args, err |-> r.err, row |-> qRow, odd |-> {}]
          IN  made(ArgsOfAny(AnyArg(form, qT, qRow), forWrite))
    /\ IdleStays

\* ArgsAppay(row, args) with the slots of Args(r, forRead), r of type T
AArgsAppay ==
    /\ qRes.op = "none"
    /\ \E form \in ArgForms :
          LET made(slots, r) ==
                  qRes' = [op |-> "ArgsAppay", form |-> form, forWrite |-> FALSE,
                           args |-> slots, err |-> r.err, row |-> r.row, odd |-> {}]
              call(slots) == made(slots, ArgsAppayOfAny(AnyArg(form, qT, ZeroRow(qT)), slots))
          IN  call(Args(qT, qRow, FALSE).args)
    /\ IdleStays

\* ArgsAppay(&r, args) for a record r, where the slots in odd hold nil or a
\* value of a type ArgsAppay does not know, and the others hold zero values
AArgsAppayOdd ==
    /\ qRes.op = "none"
    /\ \E odd \in SUBSET (1..Len(Args(qT, qRow, FALSE).args)),
          other \in {Val("nil", 0), Val("complex128", 1)} :
          LET made(slots, r) ==
                  qRes' = [op |-> "Scan", form |-> "ptr", forWrite |-> FALSE,
                           args |-> slots, err |-> r.err, row |-> r.row, odd |-> odd]
              call(slots) == made(slots, ArgsAppayOfAny(AnyArg("ptr", qT, qRow), slots))
              read(slots) == call([k \in 1..Len(slots) |->
                                      IF k \in odd THEN other
                                      ELSE IF slots[k].k \in {"complex64", "complex128"}
                                           THEN GobEncode(0)
                                           ELSE Val(slots[k].k, 0)])
          IN  odd # {} /\ read(Args(qT, qRow, FALSE).args)
    /\ IdleStays

\* the values the driver may leave in a slot whatever the field is: an
\* integer, a float, a text, a byte sequence
MixedValues == {Val("int64", 1), Val("float64", 1), Val("string", 1), Val("bytes", 1)}

\* the slots of Args(r, forRead) after a Scan that left the value other in
\* the slots in odd, and zero values of the fields' own types in the others
MixedSlots(slots, odd, other) ==
    [k \in 1..Len(slots) |->
        IF k \in odd THEN other
        ELSE IF slots[k].k \in {"complex64", "complex128"} THEN GobEncode(0)
        ELSE Val(slots[k].k, 0)]

\* ArgsAppay(&r, args) for a record r that holds values, where the slots in
\* odd hold a value of a type that need not be the field's
AArgsAppayMixed ==
    /\ qRes.op = "none"
    /\ \E odd \in SUBSET (1..Len(Args(qT, qRow, FALSE).args)), other \in MixedValues :
          LET made(slots, r) ==
                  qRes' = [op |-> "Mixed", form |-> "ptr", forWrite |-> FALSE,
                           args |-> slots, err |-> r.err, row |-> r.row, odd |-> odd]
              call(slots) == made(slots, ArgsAppayOfAny(AnyArg("ptr", qT, qRow), slots))
          IN  odd # {} /\ call(MixedSlots(Args(qT, qRow, FALSE).args, odd, other))
    /\ IdleStays

\* for row := range QueryRange[struct{ In T }](db, selectQuery) over two
\* records: the first holds the values of r, the second the value other in
\* one slot and zero values in the others
AQueryRange ==
    /\ qRes.op = "none"
    /\ \E k \in 1..Len(Args(qT, qRow, FALSE).args), other \in MixedValues :
          LET made(recs, r) ==
                  qRes' = [op |-> "QueryRange", form |-> "value", forWrite |-> FALSE,
                           args |-> recs, err |-> r.err, row |-> r.rows, odd |-> {k}]
              range(recs) ==
                  made(recs, RangeRows(<<[T |-> qT, ptr |-> FALSE]>>, <<ZeroRow(qT)>>,
                                       recs, 1))
              read(slots) == range(<<slots, MixedSlots(slots, {k}, other)>>)
          IN  read(Args(qT, qRow, FALSE).args)
    /\ IdleStays

NextArgs == AArgs \/ AArgsAppay \/ AArgsAppayOdd \/ AArgsAppayMixed \/ AQueryRange

SpecArgs == InitArgs /\ [][NextArgs]_vars

---------------------------------------------------------------------------
(* Properties of the marshaller.                                           *)

\* C12: Args and ArgsAppay accept a record value and a pointer to a record
\* value; for a scalar, a pointer to a scalar and the untyped nil they return
\* ErrTypeIsNotStruct: they do not panic and return no other error
C12_RecordArgument ==
    qRes.op \in {"Args", "ArgsAppay"} =>
        IF qRes.form \in {"value", "ptr"}
        THEN qRes.err \notin {"ErrTypeIsNotStruct", "reflect.Value.Type panic",
                              "reflect.Value.Elem panic"}
        ELSE qRes.err = "ErrTypeIsNotStruct"

\* C12, where it holds: Args took a pointer to a record of the test table
C12_PointerToRecord ==
    /\ qRes.op = "Args" /\ qRes.form = "ptr" /\ qT.elem = "TestTable" /\ Tagged(qRow)
    /\ ~qRes.forWrite /\ qRes.err = "" /\ qRes.args = qRow

\* the field the k-th slot of Args(r, forRead) belongs to
SlotField(flds, k) ==
    CHOOSE i \in 1..Len(flds) :
        /\ ~SkippedByArgs(flds[i])
        /\ Cardinality({j \in 1..i : ~SkippedByArgs(flds[j])}) = k

\* C20: where a slot holds nil or a value of a type ArgsAppay does not know,
\* the field of the slot becomes the zero value of its type, whatever it
\* held; the fields after it are set from their slots (here zero values) and
\* no error is returned
C20_ZeroFallback ==
    qRes.op = "Scan" =>
        /\ qRes.err = ""
        /\ \A k \in 1..Len(qRes.args) :
              LET i == SlotField(qT.type.fields, k)
              IN  qRes.row[i] = Val(ValueKind(qT.type.fields[i]), 0)

\* C20, where it holds: every slot of a record of the test table was nil
C20_AllNil ==
    /\ qRes.op = "Scan" /\ qT.elem = "TestTable" /\ Tagged(qRow)
    /\ qRes.odd = {1, 2, 3} /\ qRes.args[1] = Val("nil", 0)
    /\ qRes.err = "" /\ qRes.row = ZeroRow(qT)

---------------------------------------------------------------------------
(* The iterators ListRange and QueryRange, one step of the range loop at a *)
(* time.  The consumer's yield returns false at its stopAt-th call (never   *)
(* when stopAt is 0); Scan fails at record scanFail and Next fails before   *)
(* record nextFail (none when 0).  The trace holds the calls of yield and   *)
(* of the error function and the closing of the result set.                 *)

Ev(e, row, ret, err) == [e |-> e, row |-> row, ret |-> ret, err |-> err]
YieldEv(row, ret) == Ev("yield", row, ret, "")
ErrorEv(err) == Ev("error", <<>>, TRUE, err)
CloseEv == Ev("close", <<>>, TRUE, "")

\* a range loop that goes on whatever yield returns
YieldNeverBreaks(ret) == FALSE

\* if !yield(...) { break }
YieldBreaks(ret) == ~ret

\* the fields of the struct a QueryRange yields: a record, a pointer to a
\* record, a scalar, two records, and a record whose first field is skipped
RangeComps ==
    {<<[T |-> StructT(dbT), ptr |-> FALSE]>>,
     <<[T |-> StructT(dbT), ptr |-> TRUE]>>,
     <<[T |-> ScalarT("int", FALSE), ptr |-> FALSE]>>,
     <<[T |-> StructT(dbT), ptr |-> FALSE], [T |-> StructT(dbT), ptr |-> FALSE]>>,
     <<[T |-> StructT("DashFirst"), ptr |-> FALSE]>>}

\* the statements of a QueryRange: all rows of the table, their columns name
\* and data only, and a text that is no statement
RangeQueries ==
    {Select(StructT(dbT), NilAttr, numRows).stmt,
     Select(StructT("DashFirst"),
            [SelectAttr(<<>>, NoPaginator) EXCEPT !.Name = database.sch.name],
            numRows).stmt,
     <<"S","E","L","E","C","T">>}

\* the attributes of a ListRange: none, a condition, and a value that is no
\* list attribute
RangeAttrs ==
    {<<>>, <<[type |-> "Where", v |-> Where(NameEq, Val("string", 1))]>>,
     <<[type |-> "int", v |-> Val("int", 0)]>>}

InitRange == InitExec

\* the iterator function has run up to its range loop: the statement is built
\* (ListRange) and the query sent, and an error of either is passed to the
\* error function
Ranging(via, comps, offset, stopAt, scanFail, nextFail, st, fail) ==
    LET it == [op |-> "Range", via |-> via, comps |-> comps, offset |-> offset,
               stopAt |-> stopAt, scanFail |-> scanFail, nextFail |-> nextFail,
               recs |-> <<>>, i |-> 1, opened |-> FALSE, pc |-> "done",
               buf |-> [k \in 1..Len(comps) |-> ZeroRow(comps[k].T)],
               trace |-> <<>>]
        failed(e) == [it EXCEPT !.trace = <<ErrorEv(e)>>]
        queried(q) ==
            IF q.err # "" THEN failed("failed to execute query")
            ELSE [it EXCEPT !.recs = q.out, !.opened = TRUE, !.pc = "rows"]
    IN  /\ last' = IF st.err # "" THEN failed(st.err)
                   ELSE queried(Query(NewSession(dbT, database, fail), "db",
                                      st.stmt, st.args))
        /\ UNCHANGED <<pkgNumRows, qT, qRow, qRes, dbT, database, after, sess, lock>>

\* for i, row := range ListRange[T](db, offset, orderBy, limit, listAttrs...)
RListRange ==
    /\ last.op = "none"
    /\ \E offset \in 0..1, listAttrs \in RangeAttrs, fail \in 0..1,
          stopAt \in 0..MaxId, scanFail \in 0..MaxId, nextFail \in 0..MaxId :
          Ranging("ListRange", <<[T |-> qT, ptr |-> FALSE]>>, offset, stopAt,
                  scanFail, nextFail,
                  listStatement(qT, offset, <<>>, 0, listAttrs), fail)

\* for row := range QueryRange[T](db, selectQuery)
RQueryRange ==
    /\ last.op = "none"
    /\ \E comps \in RangeComps, selectQuery \in RangeQueries, fail \in 0..1,
          stopAt \in 0..MaxId, scanFail \in 0..MaxId :
          Ranging("QueryRange", comps, 0, stopAt, scanFail, 0,
                  [stmt |-> selectQuery, args |-> <<>>, err |-> ""], fail)

\* the iterator after the range loop has ended: sqlRows.Err is passed to the
\* error function, and the deferred sqlRows.Close runs
RangeEnd(it, events, nextErr) ==
    [it EXCEPT !.pc = "done",
               !.trace = @ \o events
                           \o (IF nextErr THEN <<ErrorEv("rows.Err")>> ELSE <<>>)
                           \o <<CloseEv>>]

\* one turn of for sqlRows.Next(): the record is scanned into the row buffer
\* and yielded, or Next returns false
RangeTurn(it) ==
    LET r == RangeRows(it.comps, it.buf, <<it.recs[it.i]>>, 1)
        yielded == Len(SelectSeq(it.trace, LAMBDA ev : ev.e = "yield"))
        ret == it.stopAt # yielded + 1
        given(row) == IF it.via = "ListRange" THEN row[1] ELSE row
        yield(row) ==
            IF YieldBreaks(ret) THEN RangeEnd(it, <<YieldEv(given(row), ret)>>, FALSE)
            ELSE [it EXCEPT !.trace = Append(@, YieldEv(given(row), ret)),
                            !.buf = row, !.i = @ + 1]
    IN  IF it.i > Len(it.recs) THEN RangeEnd(it, <<>>, FALSE)
        ELSE IF it.nextFail = it.i THEN RangeEnd(it, <<>>, TRUE)
        ELSE IF it.scanFail = it.i /\ r.err \in {"", "failed to apply scanned values"}
        THEN RangeEnd(it, <<ErrorEv("failed to scan row")>>, FALSE)
        ELSE IF r.err # "" THEN RangeEnd(it, <<ErrorEv(r.err)>>, FALSE)
        ELSE yield(r.rows[1])

RangeNext ==
    /\ last.op = "Range" /\ last.pc = "rows"
    /\ last' = RangeTurn(last)
    /\ UNCHANGED <<pkgNumRows, qT, qRow, qRes, dbT, database, after, sess, lock>>

\* the table is filled before the iteration: the rows differ in name and data
RangePopulate ==
    /\ last.op = "none" /\ database.seq < MaxId
    /\ LET r == RowOf(qT, 1 + (database.seq % MaxName), database.seq % (MaxData + 1))
           done(s) == s.err = "" /\ database' = s.db
       IN  done(sqlhInsert(NewSession(dbT, database, 0), qT, <<r>>))
    /\ UNCHANGED <<pkgNumRows, qT, qRow, qRes, dbT, last, after, sess, lock>>

NextRange == RangePopulate \/ RListRange \/ RQueryRange \/ RangeNext
SpecRange == InitRange /\ [][NextRange]_vars

---------------------------------------------------------------------------
(* Properties of the iterators.                                            *)

Yields(trace) == SelectSeq(trace, LAMBDA ev : ev.e = "yield")

\* the key of a yielded row, and the key of a record of the result set
YieldedKey(it, row) == IF it.via = "ListRange" THEN row[1].v ELSE row[1][1].v
RecordKey(rec) == rec[1].v

\* C19: the iterators of ListRange and QueryRange call yield once per row of
\* the result set, in its order; they call yield no more after it has
\* returned false, nor after an error has gone to the error function; and the
\* result set of a query that succeeded is closed when the iteration ends,
\* and not before
C19_IteratorStops ==
    last.op = "Range" =>
        LET tr == last.trace
            ys == Yields(tr)
            stopped == \E j \in 1..Len(tr) : tr[j].e = "error" \/ ~tr[j].ret
        IN  /\ Len(ys) <= Len(last.recs)
            /\ \A j \in 1..Len(ys) : YieldedKey(last, ys[j].row) = RecordKey(last.recs[j])
            /\ \A j, k \in 1..Len(tr) :
                  (j < k /\ tr[k].e = "yield") => (tr[j].ret /\ tr[j].e # "error")
            /\ (last.pc = "done" /\ ~stopped) => Len(ys) = Len(last.recs)
            /\ (last.pc = "done" /\ last.opened) => tr[Len(tr)].e = "close"
            /\ \A j \in 1..Len(tr) :
                  tr[j].e = "close" => (last.opened /\ last.pc = "done" /\ j = Len(tr))

\* C19: an iteration over two rows ended when yield returned false for the
\* first of them, and the result set is closed
C19_StoppedAtFirst ==
    /\ last.op = "Range" /\ last.pc = "done" /\ Len(last.recs) = 2
    /\ Len(last.trace) = 2
    /\ last.trace[1].e = "yield" /\ ~last.trace[1].ret
    /\ last.trace[2].e = "close"

---------------------------------------------------------------------------
(* The default number of rows: SetNumRows, GetNumRows and List.            *)

\* SetNumRows is called with -1..MaxNum, on a table of up to MaxNum + 1 rows
MaxNum == 3

\* query.SetNumRows(n): the value of numRows after the call
SetNumRows(cur, n) == IF n <= 1 THEN cur ELSE n

\* query.GetNumRows()
GetNumRows == pkgNumRows

\* List[T](db, previous, orderBy, listAttrs...)
List(s, on, T, previous, orderBy, listAttrs) ==
    ListRows(s, on, T, previous, orderBy, GetNumRows, listAttrs)

InitNum == InitExec

NPopulate ==
    /\ last.op = "none" /\ after.op = "none" /\ database.seq < MaxNum + 1
    /\ LET r == RowOf(qT, database.seq + 1, 0)
           done(s) == s.err = "" /\ database' = s.db
       IN  done(sqlhInsert(NewSession(dbT, database, 0), qT, <<r>>))
    /\ UNCHANGED <<pkgNumRows, qT, qRow, qRes, dbT, last, after, sess, lock>>

NSetNumRows ==
    /\ \E n \in -1..MaxNum :
          /\ pkgNumRows' = SetNumRows(pkgNumRows, n)
          /\ last' = [op |-> "SetNumRows", n |-> n]
    /\ after' = NoCall
    /\ UNCHANGED <<qT, qRow, qRes, dbT, database, sess, lock>>

NList ==
    /\ \E previous \in 0..1 :
          LET listed(l) ==
                  after' = [op |-> "List", previous |-> previous, rows |-> l.out,
                            pagination |-> l.pagination, err |-> l.err]
          IN  listed(List(NewSession(dbT, database, 0), "db", qT, previous, <<>>, <<>>))
    /\ UNCHANGED <<pkgNumRows, qT, qRow, qRes, dbT, database, last, sess, lock>>

NextNum == NPopulate \/ NSetNumRows \/ NList
SpecNum == InitNum /\ [][NextNum]_vars

\* the rows of a table of total rows that a page of at most n rows holds
\* after previous rows
PageSize(total, previous, n) ==
    IF total - previous <= 0 THEN 0
    ELSE IF total - previous < n THEN total - previous ELSE n

\* C21: GetNumRows returns the argument of the last call of SetNumRows, and
\* 10 when there was none; a List returns that number of rows (fewer when the
\* table has no more)
C21_NumRows ==
    /\ last.op = "none" => GetNumRows = 10
    /\ last.op = "SetNumRows" => GetNumRows = last.n
    /\ after.op = "List" =>
          /\ after.err = ""
          /\ Len(after.rows)
                = PageSize(Cardinality(database.rows), after.previous, GetNumRows)

\* C21: after SetNumRows(2) a List on a table of more than two rows has
\* returned two of them
C21_ListOfTwo ==
    /\ last.op = "SetNumRows" /\ last.n = 2 /\ GetNumRows = 2
    /\ after.op = "List" /\ Len(after.rows) = 2 /\ Cardinality(database.rows) > 2

---------------------------------------------------------------------------
(* Properties of the list attributes.                                      *)

\* C22: ListRows, List and ListRange take a plain string (the alias), a plain
\* bool (DISTINCT) and a *string (the table name) among their attributes,
\* with Where and query.Join values, and build the select statement without
\* an error
C22_ListAttributes ==
    qRes.op = "List" => (qRes.err = "" /\ qRes.stmt # <<>>)

\* C22: the list of the test List with Joins has been built: the alias as a
\* plain string, and a join
C22_ListWithJoins ==
    /\ qRes.op = "List" /\ Len(qRes.attr) = 2
    /\ qRes.attr[1].type = "string" /\ qRes.attr[2].type = "Join"

---------------------------------------------------------------------------
(* Properties of the table name.                                           *)

\* C23: for a record type that declares a method TableName(), Name[T] is the
\* text the method returns, whatever its db_table_name annotations and its
\* type name are
C23_NameByMethod ==
    (/\ qRes.op = "Insert" /\ qRes.err = "" /\ IsRecordArg(qT)
     /\ qT.elem \in DOMAIN TableNameMethods) =>
        InsertTable(qRes.stmt) = TableNameMethods[qT.elem]

\* C23: a statement has been built for a pointer to SomeTable, which declares
\* the method and carries an annotation
C23_OnSomeTable ==
    /\ qRes.op = "Insert" /\ qRes.err = "" /\ qT = PtrT("SomeTable")
    /\ "SomeTable" \in DOMAIN TableNameMethods
    /\ FirstTableName(qT.type.fields, 1) # <<>>

---------------------------------------------------------------------------
(* The transactions of Insert, Update, Set and Delete: each is called on a *)
(* record type or on a type that is no record, and any one of its driver   *)
(* calls may fail.                                                         *)

TxTypes == {qT, ScalarT("int", FALSE)}
TxRows == {RowOf(qT, 1, MaxData), RowOf(qT, 2, 0)}
TxWheres == SeqsUpTo(SampleWheres, 1)

InitTx == InitExec

\* the call returned: s is the caller's session after it
TxReturned(op, T, fail, s) ==
    /\ last' = [op |-> op, T |-> T, fail |-> fail, before |-> database,
                err |-> s.err, log |-> s.log]
    /\ database' = s.db
    /\ UNCHANGED <<pkgNumRows, qT, qRow, qRes, dbT, after, sess, lock>>

TxInsert ==
    /\ last.op = "none"
    /\ \E T \in TxTypes, rows \in SeqsUpTo(TxRows, MaxBatch), fail \in 0..MaxFail :
          TxReturned("Insert", T, fail,
                     sqlhInsert(NewSession(dbT, database, fail), T, rows))

TxUpdate ==
    /\ last.op = "none"
    /\ \E T \in TxTypes, row \in TxRows, wheres \in TxWheres, fail \in 0..MaxFail :
          TxReturned("Update", T, fail,
                     sqlhUpdate(NewSession(dbT, database, fail), T,
                                <<[Row |-> row, Wheres |-> wheres]>>))

TxSet ==
    /\ last.op = "none"
    /\ \E T \in TxTypes, row \in TxRows, wheres \in TxWheres, fail \in 0..MaxFail :
          TxReturned("Set", T, fail,
                     Set(NewSession(dbT, database, fail), T, row, wheres))

TxDelete ==
    /\ last.op = "none"
    /\ \E T \in TxTypes, wheres \in TxWheres, fail \in 0..MaxFail :
          TxReturned("Delete", T, fail,
                     sqlhDelete(NewSession(dbT, database, fail), T, wheres))

NextTx == RangePopulate \/ TxInsert \/ TxUpdate \/ TxSet \/ TxDelete
SpecTx == InitTx /\ [][NextTx]_vars

---------------------------------------------------------------------------
(* Properties of the transactions.                                         *)

TxOps == {"Insert", "Update", "Set", "Delete"}

\* the positions in a log of the calls named
CallsOf(log, names) == {i \in 1..Len(log) : log[i].call \in names}

\* C24: a transaction that Insert, Update, Set or Delete has begun is ended
\* exactly once, as the last call on the connection: by Commit when no step
\* failed, else by Rollback; Insert and Delete begin none when they fail to
\* build their statement; and the error of a Commit that fails is returned
C24_TxProtocol ==
    last.op \in TxOps =>
        LET log == last.log
            n == Len(log)
            begun == n >= 1 /\ log[1].call = "Begin" /\ last.fail # 1
            ends == CallsOf(log, {"Commit", "Rollback"})
        IN  /\ CallsOf(log, {"Begin"}) \subseteq {1}
            /\ ends = IF begun THEN {n} ELSE {}
            /\ (last.op \in {"Insert", "Delete"} /\ last.T.kind # "struct") =>
                  (log = <<>> /\ last.err = "ErrTypeIsNotStruct")
            /\ begun =>
                  /\ last.err = "" => log[n].call = "Commit"
                  /\ last.fail \in 2..(n - 1) => log[n].call = "Rollback"
                  /\ log[n].call = "Rollback" => last.err # ""
                  /\ log[n].call = "Commit" =>
                        IF last.fail = n THEN last.err = "driver: bad connection"
                        ELSE last.err = ""
            /\ ~begun => (last.err # "" /\ database = last.before)

\* C24: the Commit of an Insert of one row failed, and the Insert returned
\* its error
C24_CommitFailed ==
    /\ last.op = "Insert" /\ Len(last.log) = 4 /\ last.fail = 4
    /\ last.log[4].call = "Commit" /\ last.err = "driver: bad connection"

---------------------------------------------------------------------------
(* Properties of the values ArgsAppay leaves in a record.                  *)

\* C25: when ArgsAppay returns nil, the value of every included field is
\* set by the value in its slot alone: the same call on a record that held
\* other values leaves the same values; and a row QueryRange yields holds no
\* value of the row yielded before it that its own record does not hold
C25_NoStaleValues ==
    /\ (qRes.op = "Mixed" /\ qRes.err = "") =>
          \A scale \in 0..MaxScale :
              LET again == ArgsAppay(qT, SampleRow(qT.elem, scale), qRes.args)
              IN  /\ again.err = ""
                  /\ \A k \in 1..Len(qRes.args) :
                        again.row[SlotField(qT.type.fields, k)]
                            = qRes.row[SlotField(qT.type.fields, k)]
    /\ (qRes.op = "QueryRange" /\ qRes.err = "" /\ Len(qRes.row) = 2) =>
          LET alone == ArgsAppay(qT, ZeroRow(qT), qRes.args[2])
          IN  \A k \in 1..Len(qRes.args[2]) :
                  alone.row[SlotField(qT.type.fields, k)]
                      = qRes.row[2][1][SlotField(qT.type.fields, k)]

\* C25: a text arrived for the text field of a record of the test table that
\* held another text, the call returned nil and the field holds the new text
C25_TextReplaced ==
    /\ qRes.op = "Mixed" /\ qRes.err = "" /\ qT.elem = "TestTable" /\ qRes.odd = {2}
    /\ qRes.args[2] = Val("string", 1) /\ qRow[2] # Val("string", 1)
    /\ qRes.row[2] = Val("string", 1)

---------------------------------------------------------------------------
(* Name[T] and fields[T], one turn of their loop over the fields at a      *)
(* time.  The type argument is any record type, Node included.             *)

IntroTypes == RecordTypes \cup {"Node"}

InitIntro == qT \in {StructT(t) : t \in IntroTypes} /\ qRow = <<>> /\ qRes = NoResult /\ Idle

\* Name[T]() or fields[T](all) is called: t is the type argument, at the
\* label begin
IntroCall ==
    /\ qRes.op = "none"
    /\ \E op \in {"Name", "fields"}, all \in BOOLEAN :
          /\ op = "Name" => ~all
          /\ qRes' = [op |-> op, all |-> all, t |-> qT.elem, ptr |-> qT.kind = "ptr",
                      i |-> 1, pc |-> "begin", name |-> <<>>, fieldsList |-> <<>>]
    /\ IdleStays

\* Name: the statements at the label begin, or one turn of the loop
NameTurn(r) ==
    LET flds == FieldsOfType(r.t)
        field == flds[r.i]
    IN  IF r.pc = "begin"
        THEN [r EXCEPT !.ptr = FALSE, !.name = ToLower(Types[r.t].name), !.i = 1,
                       !.pc = "loop"]
        ELSE IF r.i > Len(flds) THEN [r EXCEPT !.pc = "done"]
        ELSE IF Descends(field, r.i)
        THEN [r EXCEPT !.t = field.elem, !.ptr = field.kind = "ptr", !.pc = "begin"]
        ELSE IF field.tbl # <<>> THEN [r EXCEPT !.name = field.tbl, !.pc = "done"]
        ELSE [r EXCEPT !.i = @ + 1]

\* fields: the statements at the label begin, or one turn of the loop
fieldsTurn(r) ==
    LET flds == FieldsOfType(r.t)
        field == flds[r.i]
        named(n) ==
            IF n.ok /\ n.fieldName # <<"_">>
            THEN IF Descends(field, r.i)
                 THEN [r EXCEPT !.t = field.elem, !.ptr = field.kind = "ptr", !.pc = "begin"]
                 ELSE [r EXCEPT !.fieldsList = Append(@, n.fieldName), !.i = @ + 1]
            ELSE [r EXCEPT !.i = @ + 1]
    IN  IF r.pc = "begin" THEN [r EXCEPT !.ptr = FALSE, !.i = 1, !.pc = "loop"]
        ELSE IF r.i > Len(flds) THEN [r EXCEPT !.pc = "done"]
        ELSE IF ~r.all /\ isAutoIncrement(field) THEN [r EXCEPT !.i = @ + 1]
        ELSE named(getFieldName(field))

IntroTurn ==
    /\ qRes.op \in {"Name", "fields"} /\ qRes.pc \in {"begin", "loop"}
    /\ qRes' = IF qRes.op = "Name" THEN NameTurn(qRes) ELSE fieldsTurn(qRes)
    /\ IdleStays

NextIntro == IntroCall \/ IntroTurn

\* a call that was made runs on: the loop takes its next turn
SpecIntro == InitIntro /\ [][NextIntro]_vars /\ WF_vars(NextIntro)

---------------------------------------------------------------------------
(* Properties of the introspection.                                        *)

\* C26: Name[T] and fields[T] return for every record type, also for one
\* whose first field points to a record type that leads back to it
C26_Terminates ==
    <>(qRes.op \in {"Name", "fields"} /\ qRes.pc = "done")

\* C26: Name[Result] has returned, after it went into the type its first
\* field points to
C26_ReturnedFromFirstField ==
    /\ qRes.op = "Name" /\ qT.elem = "Result" /\ qRes.pc = "done"
    /\ qRes.t = "TestTable" /\ qRes.name = Name(qT) /\ ~qRes.ptr

---------------------------------------------------------------------------
(* Paging: a caller reads a table page by page with List or ListRows, each *)
(* call taking the pagination the call before returned, until a page comes *)
(* back empty.  The table does not change while it is read.                *)

\* the table is filled with up to MaxRows rows before it is read
MaxRows == 4

\* the conditions of the paging calls: none, or one without a value
PagingAttrs == {<<>>, wheresToAttrs(<<Where(DataIsNull, Nil)>>)}

\* the order of the pages: the primary key
PagingOrder == <<"i","d">>

InitPaging == InitExec

PagePopulate ==
    /\ after.op = "none" /\ database.seq < MaxRows
    /\ LET r == RowOf(qT, database.seq + 1, database.seq % (MaxData + 1))
           done(s) == s.err = "" /\ database' = s.db
       IN  done(sqlhInsert(NewSession(dbT, database, 0), qT, <<r>>))
    /\ UNCHANGED <<pkgNumRows, qT, qRow, qRes, dbT, last, after, sess, lock>>

\* the caller starts to read: with List, or with ListRows and n rows a page
PageFirst ==
    /\ after.op = "none"
    /\ \E via \in {"List", "ListRows"}, n \in 1..MaxNum, attrs \in PagingAttrs :
          /\ via = "List" => n = 1
          /\ after' = [op |-> "Page", via |-> via, n |-> n, attrs |-> attrs, steps |-> <<>>]
    /\ UNCHANGED <<pkgNumRows, qT, qRow, qRes, dbT, database, last, sess, lock>>

\* the next call, with the pagination of the call before as previous
PageNext ==
    /\ after.op = "Page"
    /\ after.steps # <<>> =>
          after.steps[Len(after.steps)].rows # <<>> /\ after.steps[Len(after.steps)].err = ""
    /\ LET previous == IF after.steps = <<>> THEN 0
                       ELSE after.steps[Len(after.steps)].pagination
           s == NewSession(dbT, database, 0)
           listed(l) ==
               after' = [after EXCEPT !.steps =
                            Append(@, [previous |-> previous, rows |-> l.out,
                                       pagination |-> l.pagination, err |-> l.err])]
       IN  IF after.via = "List"
           THEN listed(List(s, "db", qT, previous, PagingOrder, after.attrs))
           ELSE listed(ListRows(s, "db", qT, previous, PagingOrder, after.n, after.attrs))
    /\ UNCHANGED <<pkgNumRows, qT, qRow, qRes, dbT, database, last, sess, lock>>

NextPaging == PagePopulate \/ NSetNumRows \/ PageFirst \/ PageNext
SpecPaging == InitPaging /\ [][NextPaging]_vars

---------------------------------------------------------------------------
(* Properties of paging.                                                   *)

\* the keys of the records of the pages read so far, in the order read
RECURSIVE PagedKeys(_, _)
PagedKeys(steps, k) ==
    IF k > Len(steps) THEN <<>>
    ELSE [i \in 1..Len(steps[k].rows) |-> RecordKey(steps[k].rows[i])]
            \o PagedKeys(steps, k + 1)

\* the keys of the rows of the table that satisfy the conditions, in key order
MatchingKeys(attrs) ==
    LET hit == Matching(database.rows, [i \in 1..Len(attrs) |-> attrs[i].v])
        sorted == SortRows(hit, database.sch.key)
    IN  [i \in 1..Len(sorted) |-> sorted[i][database.sch.key].v]

\* C28: each call returns pagination = previous + the number of rows of its
\* page; the pages read one after the other from 0 are the matching rows in
\* order, each once, and the page after the last is empty and leaves the
\* pagination as it was
C28_Paging ==
    after.op = "Page" =>
        LET steps == after.steps
            read == PagedKeys(steps, 1)
            want == MatchingKeys(after.attrs)
        IN  /\ \A k \in 1..Len(steps) :
                  /\ steps[k].err = ""
                  /\ steps[k].pagination = steps[k].previous + Len(steps[k].rows)
            /\ Len(read) <= Len(want) /\ read = SubSeq(want, 1, Len(read))
            /\ (steps # <<>> /\ steps[Len(steps)].rows = <<>>) =>
                  /\ read = want
                  /\ steps[Len(steps)].pagination = steps[Len(steps)].previous

\* C28: a table of more than two matching rows has been read to its end in
\* two pages and an empty one
C28_ThreePages ==
    /\ after.op = "Page" /\ Len(after.steps) = 3
    /\ Len(after.steps[1].rows) = 2 /\ after.steps[2].rows # <<>>
    /\ after.steps[3].rows = <<>> /\ after.steps[3].pagination = after.steps[2].pagination
    /\ Len(MatchingKeys(after.attrs)) > 2

---------------------------------------------------------------------------
(* Count[T] of package sqlh, next to a ListRows with the same conditions   *)
(* and no limit.                                                           *)

\* Count[T](db, wheres...): the statement and its arguments
countStatement(T, wheres) ==
    LET made(c) ==
            [stmt |-> c.stmt, args |-> [i \in 1..Len(wheres) |-> wheres[i].Value],
             err |-> c.err]
    IN  made(Count(T, SelectAttr([i \in 1..Len(wheres) |-> wheres[i].Field \o <<"?">>],
                                 NoPaginator)))

\* Count[T](db, wheres...): the count and the error
sqlhCount(s, on, T, wheres) ==
    LET scan(q) ==
            IF q.err # "" THEN [count |-> 0, err |-> q.err]
            ELSE IF q.out = <<>> THEN [count |-> 0, err |-> ""]
            ELSE [count |-> q.out[1][1].v, err |-> ""]
        query(st) ==
            IF st.err # "" THEN [count |-> 0, err |-> st.err]
            ELSE scan(Query(s, on, st.stmt, st.args))
    IN  query(countStatement(T, wheres))

InitCount == InitExec

\* Count and ListRows are called with the same conditions on the same table
CallCount ==
    /\ after.op = "none"
    /\ \E wheres \in SeqsUpTo(SampleWheres, MaxWheres) :
          LET s == NewSession(dbT, database, 0)
              counted == sqlhCount(s, "db", qT, wheres)
              listed == ListRows(s, "db", qT, 0, <<>>, 0, wheresToAttrs(wheres))
          IN  after' = [op |-> "Count", wheres |-> wheres,
                        count |-> counted.count, err |-> counted.err,
                        counting |-> countStatement(qT, wheres),
                        listing |-> listStatement(qT, 0, <<>>, 0, wheresToAttrs(wheres)),
                        rows |-> listed.out, listErr |-> listed.err]
    /\ UNCHANGED <<pkgNumRows, qT, qRow, qRes, dbT, database, last, sess, lock>>

NextCount == PagePopulate \/ CallCount
SpecCount == InitCount /\ [][NextCount]_vars

---------------------------------------------------------------------------
(* Properties of Count.                                                    *)

\* the predicate of a statement, whatever the letter case of its keywords
WherePart(stmt) ==
    IF Contains(ToLower(stmt), Chars(" where "))
    THEN Before(After(ToLower(stmt), Chars(" where ")), <<";">>)
    ELSE <<>>

\* C29: for every list of conditions, one with a nil Value included, Count
\* builds the predicate ListRows builds, with as many placeholders and bound
\* arguments, and returns the number of rows ListRows without limit returns
C29_CountAgreesWithList ==
    after.op = "Count" =>
        /\ WherePart(after.counting.stmt) = WherePart(after.listing.stmt)
        /\ CountOf(after.counting.stmt, <<"?">>) = CountOf(after.listing.stmt, <<"?">>)
        /\ after.counting.args = after.listing.args
        /\ after.err = after.listErr
        /\ after.err = "" => after.count = Len(after.rows)

\* C29: Count with one condition that has a value returned the number of
\* rows ListRows returned, on a table with more rows than that
C29_CountedOne ==
    /\ after.op = "Count" /\ Len(after.wheres) = 1 /\ after.wheres[1].Value # Nil
    /\ after.err = "" /\ after.listErr = ""
    /\ after.count = Len(after.rows) /\ after.count = 1
    /\ Cardinality(database.rows) > 1

=============================================================================
